---- MODULE Spec2Model ----
(***************************************************************************)
(* Callisto spectrometer daemon (callisto/runtime.py): the run-state       *)
(* machine of _PythonDaemon, its start/stop/overview actions, the serial   *)
(* handshake, the scheduler loop, the TCP accept loop and the client       *)
(* connection loop, as concurrently running threads.                       *)
(*                                                                         *)
(* Threads take one step at a time.  A step is a stretch of code that      *)
(* touches at most one shared field of the daemon (_state, _acq_stop,      *)
(* _acq_thread, _stop_event, the serial backend); the daemon takes no lock.*)
(***************************************************************************)
EXTENDS Integers, Sequences, FiniteSets, TLC

\* ---------------------------------------------------------------- constants

\* callisto/constants.py
STOPPED == 0
RUNNING == 3
OVERVIEW == 4
SCHEDULE_CHECK_INTERVAL == 60
RESET_STRING == <<"D", "0", "\r", "G", "D", "\r", "S", "0", "\r">>
ID_QUERY == <<"S", "0", "\r">>
ID_RESPONSE == <<"$", "C", "R", "X", ":", "S", "t", "o", "p", "p", "e", "d", "\r">>

\* _PythonDaemon._apply_schedule_action: the action codes it dispatches on
ACTION_START == 3
ACTION_STOP == 0
ACTION_OVERVIEW == 8

\* seconds in a day: time.gmtime() yields tm_hour*3600 + tm_min*60 + tm_sec
DaySeconds == 24 * 3600

\* ------------------------------------------------------------------- bounds

\* acquisition loops that may be alive or being started at the same time
MaxAcq == 2
\* check cycles of the scheduler in the concurrent specification
MaxCycles == 1

\* ------------------------------------------------------------------ threads

Main == "main"
Sched == "sched"
Clients == {"c1"}
Callers == {Sched} \cup Clients

None == "none"

VARIABLES
    net_port,        \* Config.net_port
    state,           \* _PythonDaemon._state
    stop_event,      \* _PythonDaemon._stop_event
    acq_stop,        \* _PythonDaemon._acq_stop
    acq_thread,      \* _PythonDaemon._acq_thread: "none", or the thread it names: "alive" / "dead"
    orphans,         \* acquisition loops still running that _acq_thread no longer names
    serLoop,         \* AsyncSerialBackend._loop is not None
    serTransport,    \* AsyncSerialBackend._transport is not None
    pc,              \* position of every thread
    loc,             \* per caller: the locals of the action it is executing
    schedule,        \* _PythonDaemon._schedule
    clock,           \* wall clock, seconds since midnight (UTC)
    cycle,           \* check cycles the scheduler loop has completed
    cycleCap,        \* cycles after which the model stops the clock
    t_sec,           \* _scheduler_loop: t_sec of the running cycle
    idx,             \* _scheduler_loop: position of the for loop
    applied,         \* _scheduler_loop: applied
    fired,           \* history: the entries whose action was invoked, in order
    port,            \* Config.rxcomport or Config.serialport
    listening,       \* _server_loop: the listener is bound
    interrupted,     \* history: shutdown was requested (KeyboardInterrupt in serve_forever)
    serveResult,     \* serve_forever: "running", "returned" (0) or "raised"
    extract,         \* a call of _extract_frames: its argument, position and locals
    flush,           \* a call of _flush_data: hex_chars and what the sink was handed
    cmd,             \* a call of process_client_command: line, callbacks run, response
    writer,          \* a DataWriterEngine: its fields and the last matrix it built
    backend,         \* an AsyncSerialBackend: its four handles and the last results
    acq              \* the locals of one run of _acquisition_loop

vars == <<net_port, port, state, stop_event, acq_stop, acq_thread, orphans, serLoop,
          serTransport, pc, loc, schedule, clock, cycle, cycleCap, t_sec, idx,
          applied, fired, listening, interrupted, serveResult,
          extract, flush, cmd, writer, backend, acq>>

daemonVars == <<state, acq_stop, acq_thread, orphans, serLoop, serTransport>>
schedVars == <<clock, cycle, t_sec, idx, applied, fired>>
mainVars == <<stop_event, listening, interrupted, serveResult>>
\* the components below the daemon, exercised on their own further down; the
\* daemon's threads are modelled down to their calls into them
unitVars == <<extract, flush, cmd, writer, backend, acq>>
configVars == <<net_port, port, schedule, cycleCap>>
cfgVars == <<configVars, unitVars>>
\* everything the daemon's threads read or assign
lifecycleVars == <<daemonVars, schedVars, mainVars, configVars, pc, loc>>
\* value of a component's variable in a specification that does not exercise it
Unused == "unused"

\* ------------------------------------------------------------------ helpers

\* str.endswith
EndsWith(s, suffix) ==
    /\ Len(s) >= Len(suffix)
    /\ SubSeq(s, Len(s) - Len(suffix) + 1, Len(s)) = suffix

\* the locals of a caller that is executing no action
NoCall == [call |-> None, entry |-> STOPPED, over |-> {}, log |-> <<>>,
           got |-> FALSE]

Event(op, data) == [op |-> op, data |-> data]

Logged(t, op) == \E i \in 1..Len(loc[t].log) : loc[t].log[i].op = op

\* start_recording has returned to caller t without starting acquisition:
\* the port could not be opened, or the handshake saw no identify response
StartFailed(t) ==
    /\ pc[t] = "ret"
    /\ loc[t].call = "start"
    /\ Len(loc[t].log) > 0
    /\ loc[t].log[Len(loc[t].log)].op \in {"open_failed", "close"}

\* acquisition loops that have been started and have not left their while loop
AliveLoops == orphans + (IF acq_thread = "alive" THEN 1 ELSE 0)

StartPcs == {"start_open", "hs_reset", "hs_poll", "hs_query", "start_abort",
             "start_clear", "start_spawn", "start_set"}
StopPcs == {"stop_signal", "stop_check", "stop_join", "stop_close", "stop_set"}

\* the callers other than t whose start_recording is in progress
StartsBefore(t) ==
    {u \in Callers \ {t} : loc[u].call = "start" /\ pc[u] \in StartPcs}

\* ------------------------------------------------- the serial handshake

\* What read_char returns, call after call, until the deadline of the polling
\* window: a character of the receiver, or None for a read that timed out.
ReadResults ==
    { <<>>,
      <<None, None>>,
      ID_RESPONSE,
      <<"]", None>> \o ID_RESPONSE \o <<"2">>,
      SubSeq(ID_RESPONSE, 1, Len(ID_RESPONSE) - 1),
      <<"$", "C", "R", "X", ":", "S", "t", "a", "r", "t", "e", "d", "\r">> }

\* _serial_handshake, the while loop: seen, got_response after the reads rr[i..]
RECURSIVE PollLoop(_, _, _)
PollLoop(rr, i, seen) ==
    IF i > Len(rr)
    THEN [got |-> FALSE, seen |-> seen]
    ELSE IF rr[i] = None
         THEN PollLoop(rr, i + 1, seen)
         ELSE LET joined == Append(seen, rr[i])
              IN IF ID_RESPONSE # <<>> /\ EndsWith(joined, ID_RESPONSE)
                 THEN [got |-> TRUE, seen |-> joined]
                 ELSE PollLoop(rr, i + 1, joined)

\* self._serial.write(payload), as the caller sees it: fire and forget
SerialWrite(payload) == Event("write", payload)

\* ------------------------------------------------- the daemon's actions

\* The first statement of an action, executed by caller t: the guard of
\* start_recording / stop_recording, the assignment of overview_once / overview_off.
Invoke(t, call) ==
    /\ loc' = [loc EXCEPT ![t] = [NoCall EXCEPT !.call = call, !.entry = state,
                                                !.over = StartsBefore(t)]]
    /\ CASE call = "start" ->
              /\ pc' = [pc EXCEPT ![t] = IF state = RUNNING THEN "ret" ELSE "start_open"]
              /\ state' = state
         [] call = "stop" ->
              /\ pc' = [pc EXCEPT ![t] = IF state = STOPPED THEN "ret" ELSE "stop_signal"]
              /\ state' = state
         [] call = "overview" ->
              /\ pc' = [pc EXCEPT ![t] = "ret"]
              /\ state' = OVERVIEW
         [] call = "overview_off" ->
              /\ pc' = [pc EXCEPT ![t] = "ret"]
              /\ state' = IF state # STOPPED THEN RUNNING ELSE STOPPED
         [] OTHER ->
              /\ pc' = [pc EXCEPT ![t] = "ret"]
              /\ state' = state
    /\ UNCHANGED <<acq_stop, acq_thread, orphans, serLoop, serTransport>>

Step(t, to, ev) ==
    /\ pc' = [pc EXCEPT ![t] = to]
    /\ loc' = [loc EXCEPT ![t].log = Append(@, ev)]

\* _open_serial: no port configured, or AsyncSerialBackend.start, which tears
\* the previous connection down and then opens the port or gives up and
\* leaves every handle empty (taken as one step of the backend)
StartOpen(t) ==
    /\ pc[t] = "start_open"
    /\ \E ok \in BOOLEAN :
         IF port = ""
         THEN /\ ~ok
              /\ Step(t, "ret", Event("open_failed", <<>>))
              /\ UNCHANGED <<serLoop, serTransport>>
         ELSE /\ serLoop' = ok
              /\ serTransport' = ok
              /\ Step(t, IF ok THEN "hs_reset" ELSE "ret",
                      Event(IF ok THEN "open" ELSE "open_failed", <<>>))
    /\ UNCHANGED <<state, acq_stop, acq_thread, orphans>>
    /\ UNCHANGED <<cfgVars, schedVars, mainVars>>

\* _serial_handshake: self._serial.write(RESET_STRING)
HsWriteReset(t) ==
    /\ pc[t] = "hs_reset"
    /\ Step(t, "hs_poll", SerialWrite(RESET_STRING))
    /\ UNCHANGED <<daemonVars, cfgVars, schedVars, mainVars>>

\* _serial_handshake: the polling window (read_char returns None at once when
\* the backend has no loop)
HsPoll(t) ==
    /\ pc[t] = "hs_poll"
    /\ \E rr \in (IF serLoop THEN ReadResults ELSE {<<>>}) :
         LET r == PollLoop(rr, 1, <<>>)
         IN /\ pc' = [pc EXCEPT ![t] = "hs_query"]
            /\ loc' = [loc EXCEPT ![t].got = r.got,
                                  ![t].log = Append(@, Event("read", r.seen))]
    /\ UNCHANGED <<daemonVars, cfgVars, schedVars, mainVars>>

\* the handshake as a best effort: acquisition starts whatever it returned
HandshakeBranchBestEffort(got) == "start_clear"

\* start_recording: if not self._serial_handshake(): close and return
HandshakeBranch(got) == IF got THEN "start_clear" ELSE "start_abort"

\* _serial_handshake: the final ID query and the return of got_response, on
\* which start_recording branches
HsWriteQuery(t) ==
    /\ pc[t] = "hs_query"
    /\ Step(t, HandshakeBranch(loc[t].got),
            IF ID_QUERY # <<>> THEN SerialWrite(ID_QUERY)
                               ELSE Event("skip", <<>>))
    /\ UNCHANGED <<daemonVars, cfgVars, schedVars, mainVars>>

\* start_recording: the handshake failed, self._close_serial() and return
StartAbort(t) ==
    /\ pc[t] = "start_abort"
    /\ serLoop' = FALSE
    /\ serTransport' = FALSE
    /\ Step(t, "ret", Event("close", <<>>))
    /\ UNCHANGED <<state, acq_stop, acq_thread, orphans>>
    /\ UNCHANGED <<cfgVars, schedVars, mainVars>>

\* start_recording: self._acq_stop.clear()
StartClear(t) ==
    /\ pc[t] = "start_clear"
    /\ acq_stop' = FALSE
    /\ Step(t, "start_spawn", Event("clear", <<>>))
    /\ UNCHANGED <<state, acq_thread, orphans, serLoop, serTransport>>
    /\ UNCHANGED <<cfgVars, schedVars, mainVars>>

\* start_recording: the acquisition thread is created, stored and started
StartSpawn(t) ==
    /\ pc[t] = "start_spawn"
    /\ acq_thread' = "alive"
    /\ orphans' = IF acq_thread = "alive" THEN orphans + 1 ELSE orphans
    /\ Step(t, "start_set", Event("spawn", <<>>))
    /\ UNCHANGED <<state, acq_stop, serLoop, serTransport>>
    /\ UNCHANGED <<cfgVars, schedVars, mainVars>>

\* start_recording: self._state = RUNNING
StartSetState(t) ==
    /\ pc[t] = "start_set"
    /\ state' = RUNNING
    /\ Step(t, "ret", Event("state", <<>>))
    /\ UNCHANGED <<acq_stop, acq_thread, orphans, serLoop, serTransport>>
    /\ UNCHANGED <<cfgVars, schedVars, mainVars>>

\* a stop_recording that signals and goes on to close without the join
StopSignalNoJoin(t) ==
    /\ pc[t] = "stop_signal"
    /\ acq_stop' = TRUE
    /\ Step(t, "stop_close", Event("signal", <<>>))
    /\ UNCHANGED <<state, acq_thread, orphans, serLoop, serTransport>>
    /\ UNCHANGED <<cfgVars, schedVars, mainVars>>

\* stop_recording: the pre-read sleep, then self._acq_stop.set()
StopSignal(t) ==
    /\ pc[t] = "stop_signal"
    /\ acq_stop' = TRUE
    /\ Step(t, "stop_check", Event("signal", <<>>))
    /\ UNCHANGED <<state, acq_thread, orphans, serLoop, serTransport>>
    /\ UNCHANGED <<cfgVars, schedVars, mainVars>>

\* stop_recording: if self._acq_thread is not None
StopCheck(t) ==
    /\ pc[t] = "stop_check"
    /\ IF acq_thread # None
       THEN /\ pc' = [pc EXCEPT ![t] = "stop_join"]
            /\ UNCHANGED loc
       ELSE Step(t, "stop_close", Event("no_thread", <<>>))
    /\ UNCHANGED <<daemonVars, cfgVars, schedVars, mainVars>>

\* stop_recording: self._acq_thread.join(timeout=2.0); self._acq_thread = None.
\* The join returns when the thread has ended or when the two seconds are over;
\* a field another caller has set to None meanwhile raises AttributeError.
StopJoin(t) ==
    /\ pc[t] = "stop_join"
    /\ IF acq_thread = None
       THEN /\ pc' = [pc EXCEPT ![t] = "raised"]
            /\ UNCHANGED <<loc, acq_thread, orphans>>
       ELSE /\ acq_thread' = None
            /\ orphans' = IF acq_thread = "alive" THEN orphans + 1 ELSE orphans
            /\ Step(t, "stop_close", Event("join", <<>>))
    /\ UNCHANGED <<state, acq_stop, serLoop, serTransport>>
    /\ UNCHANGED <<cfgVars, schedVars, mainVars>>

\* a stop_recording that leaves the serial connection as it is
StopCloseKeepsOpen(t) ==
    /\ pc[t] = "stop_close"
    /\ Step(t, "stop_set", Event("close", <<>>))
    /\ UNCHANGED <<state, acq_stop, acq_thread, orphans, serLoop, serTransport>>
    /\ UNCHANGED <<cfgVars, schedVars, mainVars>>

\* stop_recording: the drain sleep, then self._close_serial()
StopClose(t) ==
    /\ pc[t] = "stop_close"
    /\ serLoop' = FALSE
    /\ serTransport' = FALSE
    /\ Step(t, "stop_set", Event("close", <<>>))
    /\ UNCHANGED <<state, acq_stop, acq_thread, orphans>>
    /\ UNCHANGED <<cfgVars, schedVars, mainVars>>

\* stop_recording: self._state = STOPPED
StopSetState(t) ==
    /\ pc[t] = "stop_set"
    /\ state' = STOPPED
    /\ Step(t, "ret", Event("state", <<>>))
    /\ UNCHANGED <<acq_stop, acq_thread, orphans, serLoop, serTransport>>
    /\ UNCHANGED <<cfgVars, schedVars, mainVars>>

\* _acquisition_loop: the while condition is found false and the thread ends
AcqExit ==
    /\ acq_stop \/ stop_event
    /\ \/ /\ acq_thread = "alive"
          /\ acq_thread' = "dead"
          /\ UNCHANGED orphans
       \/ /\ orphans > 0
          /\ orphans' = orphans - 1
          /\ UNCHANGED acq_thread
    /\ UNCHANGED <<state, acq_stop, serLoop, serTransport>>
    /\ UNCHANGED <<pc, loc, cfgVars, schedVars, mainVars>>

\* ------------------------------------------------------------ the scheduler

Entry(t, action) == [t |-> t, action |-> action]

\* list.sort(key=lambda e: e.t): stable, ascending t
RECURSIVE InsertByT(_, _)
InsertByT(sorted, e) ==
    IF sorted = <<>> THEN <<e>>
    ELSE IF sorted[Len(sorted)].t <= e.t
         THEN Append(sorted, e)
         ELSE Append(InsertByT(SubSeq(sorted, 1, Len(sorted) - 1), e), sorted[Len(sorted)])

RECURSIVE SortByT(_)
SortByT(entries) ==
    IF entries = <<>> THEN <<>>
    ELSE InsertByT(SortByT(SubSeq(entries, 1, Len(entries) - 1)), entries[Len(entries)])

\* a load_schedule that forgets entries.sort
load_schedule_unsorted(entries) == entries

\* load_schedule: the parsed entries, sorted
load_schedule(entries) == SortByT(entries)

\* an action table that starts a recording for a code it does not know
ActionCallDefaultStart(action) ==
    IF action = ACTION_STOP THEN "stop"
    ELSE IF action = ACTION_OVERVIEW THEN "overview"
    ELSE "start"

\* _apply_schedule_action: the action a code maps to
ActionCall(action) ==
    IF action = ACTION_START THEN "start"
    ELSE IF action = ACTION_STOP THEN "stop"
    ELSE IF action = ACTION_OVERVIEW THEN "overview"
    ELSE None

\* a comparison that misses the entry whose t is the current second
DueStrict(i) == i \notin applied /\ t_sec > schedule[i].t

\* _scheduler_loop: is entry i to be fired in a cycle that read t_sec
Due(i) == i \notin applied /\ t_sec >= schedule[i].t

\* _scheduler_loop: the while condition, time.gmtime() and t_sec
SchedHead ==
    /\ pc[Sched] = "sched_head"
    /\ IF stop_event
       THEN /\ pc' = [pc EXCEPT ![Sched] = "done"]
            /\ UNCHANGED <<t_sec, idx>>
       ELSE /\ pc' = [pc EXCEPT ![Sched] = "sched_for"]
            /\ t_sec' = clock
            /\ idx' = 1
    /\ UNCHANGED <<loc, clock, cycle, applied, fired>>
    /\ UNCHANGED <<daemonVars, cfgVars, mainVars>>

\* _scheduler_loop: one turn of the for loop (idx counts from 1 here); a due
\* entry has its action invoked
SchedFor ==
    /\ pc[Sched] = "sched_for"
    /\ IF idx > Len(schedule)
       THEN /\ pc' = [pc EXCEPT ![Sched] = "sched_wait"]
            /\ UNCHANGED <<loc, idx, fired, daemonVars>>
       ELSE IF Due(idx)
            THEN /\ fired' = Append(fired, idx)
                 /\ Invoke(Sched, ActionCall(schedule[idx].action))
                 /\ UNCHANGED idx
            ELSE /\ idx' = idx + 1
                 /\ UNCHANGED <<pc, loc, fired, daemonVars>>
    /\ UNCHANGED <<clock, cycle, t_sec, applied>>
    /\ UNCHANGED <<cfgVars, mainVars>>

\* an entry that is marked only when its action took effect
AppliedUnlessFailed(done, i, failed) == IF failed THEN done ELSE done \cup {i}

\* _scheduler_loop: applied.add(idx), whatever the action did
AppliedAdd(done, i, failed) == done \cup {i}

\* _scheduler_loop: the action has returned, applied.add(idx)
SchedApplied ==
    /\ pc[Sched] = "ret"
    /\ applied' = AppliedAdd(applied, idx, StartFailed(Sched))
    /\ idx' = idx + 1
    /\ pc' = [pc EXCEPT ![Sched] = "sched_for"]
    /\ loc' = [loc EXCEPT ![Sched] = NoCall]
    /\ UNCHANGED <<clock, cycle, t_sec, fired>>
    /\ UNCHANGED <<daemonVars, cfgVars, mainVars>>

\* _scheduler_loop: self._stop_event.wait(timeout=SCHEDULE_CHECK_INTERVAL)
\* returns at once when the flag is set, and after the interval otherwise
SchedWait ==
    /\ pc[Sched] = "sched_wait"
    /\ IF stop_event
       THEN UNCHANGED <<clock, cycle>>
       ELSE /\ cycle < cycleCap
            /\ clock' = (clock + SCHEDULE_CHECK_INTERVAL) % DaySeconds
            /\ cycle' = cycle + 1
    /\ pc' = [pc EXCEPT ![Sched] = "sched_head"]
    /\ UNCHANGED <<loc, t_sec, idx, applied, fired>>
    /\ UNCHANGED <<daemonVars, cfgVars, mainVars>>

\* ------------------------------------------------- the control connections

\* What a client sends: a command line, named by the callback the control
\* protocol maps it to, "get" or "unknown" text (lines that invoke no callback
\* and are answered with an ERROR response), "quit", or the end of the stream
Lines == {"start", "stop", "overview", "overview_continuous", "overview_off",
          "get", "unknown", "quit", "eof"}

\* _handle_client: the while condition
ClientHead(c) ==
    /\ pc[c] = "client_head"
    /\ pc' = [pc EXCEPT ![c] = IF stop_event THEN "done" ELSE "readline"]
    /\ UNCHANGED <<loc, daemonVars, cfgVars, schedVars, mainVars>>

\* _handle_client: f.readline() returns a line (it waits for one without a
\* timeout) and process_client_command dispatches it
ClientReadline(c) ==
    /\ pc[c] = "readline"
    /\ \E line \in Lines :
         IF line \in {"quit", "eof"}
         THEN /\ pc' = [pc EXCEPT ![c] = "done"]
              /\ UNCHANGED <<loc, daemonVars>>
         ELSE /\ line = "start" =>
                    AliveLoops + Cardinality({u \in Callers : pc[u] \in StartPcs}) < MaxAcq
              /\ Invoke(c, line)
    /\ UNCHANGED <<cfgVars, schedVars, mainVars>>

\* _handle_client: f.write(resp)
ClientRespond(c) ==
    /\ pc[c] = "ret"
    /\ pc' = [pc EXCEPT ![c] = "client_head"]
    /\ loc' = [loc EXCEPT ![c] = NoCall]
    /\ UNCHANGED <<daemonVars, cfgVars, schedVars, mainVars>>

\* ------------------------------------------------------ serve_forever

\* serve_forever: sched_thread.start()
ServeStart ==
    /\ pc[Main] = "serve_start"
    /\ pc' = [pc EXCEPT ![Main] = "server_loop", ![Sched] = "sched_head"]
    /\ UNCHANGED <<loc, daemonVars, cfgVars, schedVars, mainVars>>

\* _server_loop: returns when net_port <= 0, else binds and listens (bind
\* raises OSError when the port is taken)
ServerLoopEnter ==
    /\ pc[Main] = "server_loop"
    /\ \E bindOk \in BOOLEAN :
         IF net_port <= 0
         THEN /\ bindOk
              /\ pc' = [pc EXCEPT ![Main] = "finally"]
              /\ UNCHANGED <<listening, serveResult>>
         ELSE /\ listening' = bindOk
              /\ pc' = [pc EXCEPT ![Main] = IF bindOk THEN "accept" ELSE "finally"]
              /\ serveResult' = IF bindOk THEN serveResult ELSE "raising"
    /\ UNCHANGED <<stop_event, interrupted>>
    /\ UNCHANGED <<loc, daemonVars, cfgVars, schedVars>>

\* _server_loop: the while condition holds (only serve_forever's finally sets
\* the flag, after the loop has been left) and srv.accept() returns a
\* connection, which is handled on a thread of its own
MainAccept(c) ==
    /\ pc[Main] = "accept"
    /\ ~stop_event
    /\ pc[c] = "unconnected"
    /\ pc' = [pc EXCEPT ![c] = "client_head"]
    /\ UNCHANGED <<loc, daemonVars, cfgVars, schedVars, mainVars>>

\* the operator's shutdown request: KeyboardInterrupt in the main thread while
\* it is in the accept loop
Interrupt ==
    /\ pc[Main] = "accept"
    /\ pc' = [pc EXCEPT ![Main] = "finally"]
    /\ listening' = FALSE
    /\ interrupted' = TRUE
    /\ serveResult' = "raising"
    /\ UNCHANGED stop_event
    /\ UNCHANGED <<loc, daemonVars, cfgVars, schedVars>>

\* serve_forever, finally: self._stop_event.set()
MainFinallySet ==
    /\ pc[Main] = "finally"
    /\ stop_event' = TRUE
    /\ pc' = [pc EXCEPT ![Main] = "join"]
    /\ UNCHANGED <<listening, interrupted, serveResult>>
    /\ UNCHANGED <<loc, daemonVars, cfgVars, schedVars>>

\* serve_forever, finally: sched_thread.join(timeout=2.0), then return 0 or
\* the pending exception
MainJoin ==
    /\ pc[Main] = "join"
    /\ pc' = [pc EXCEPT ![Main] = "returned"]
    /\ serveResult' = IF serveResult = "raising" THEN "raised" ELSE "returned"
    /\ UNCHANGED <<stop_event, listening, interrupted>>
    /\ UNCHANGED <<loc, daemonVars, cfgVars, schedVars>>

\* ------------------------------------------------------- specifications

NetPorts == {-1, 0, 6789}
Ports == {"", "/dev/ttyUSB0"}

\* the schedule of the end-to-end scenario: 04:00:00 start, 19:30:00 stop
T0400 == 4 * 3600
T1930 == 19 * 3600 + 30 * 60
T2359 == DaySeconds - 1

RawSchedules ==
    { <<Entry(T1930, ACTION_STOP), Entry(T0400, ACTION_START)>> }

StartClocks == {T1930}

InitDaemon ==
    /\ state = STOPPED
    /\ stop_event = FALSE
    /\ acq_stop = FALSE
    /\ acq_thread = None
    /\ orphans = 0
    /\ serLoop = FALSE
    /\ serTransport = FALSE
    /\ loc = [t \in Callers |-> NoCall]
    /\ cycle = 0
    /\ t_sec = 0
    /\ idx = 1
    /\ applied = {}
    /\ fired = <<>>
    /\ interrupted = FALSE
    /\ serveResult = "running"
    /\ extract = Unused /\ flush = Unused /\ cmd = Unused
    /\ writer = Unused /\ backend = Unused /\ acq = Unused

\* the daemon constructed and not served: no thread of it ever runs
InitLifecycleIdle ==
    /\ state = STOPPED /\ stop_event = FALSE /\ acq_stop = FALSE
    /\ acq_thread = None /\ orphans = 0
    /\ serLoop = FALSE /\ serTransport = FALSE
    /\ loc = [t \in Callers |-> NoCall]
    /\ pc = [t \in {Main} \cup Callers |-> "unstarted"]
    /\ cycle = 0 /\ t_sec = 0 /\ idx = 1 /\ applied = {} /\ fired = <<>>
    /\ clock = 0 /\ cycleCap = 0
    /\ interrupted = FALSE /\ serveResult = "running" /\ listening = FALSE
    /\ net_port = 0 /\ port = "" /\ schedule = <<>>

\* the daemon as constructed by _python_daemon_main, before serve_forever
Init ==
    /\ InitDaemon
    /\ net_port \in NetPorts
    /\ port \in Ports
    /\ \E raw \in RawSchedules : schedule = load_schedule(raw)
    /\ clock \in StartClocks
    /\ cycleCap = MaxCycles
    /\ listening = FALSE
    /\ pc = [t \in {Main} \cup Callers |->
               IF t = Main THEN "serve_start"
               ELSE IF t = Sched THEN "unstarted" ELSE "unconnected"]

CallStep(t) ==
    \/ StartOpen(t) \/ HsWriteReset(t) \/ HsPoll(t) \/ HsWriteQuery(t)
    \/ StartAbort(t) \/ StartClear(t) \/ StartSpawn(t) \/ StartSetState(t)
    \/ StopSignal(t) \/ StopCheck(t) \/ StopJoin(t) \/ StopClose(t)
    \/ StopSetState(t)

SchedStep == SchedHead \/ SchedFor \/ SchedApplied \/ SchedWait

ClientStep(c) == ClientHead(c) \/ ClientReadline(c) \/ ClientRespond(c)

MainStep ==
    \/ ServeStart \/ ServerLoopEnter \/ Interrupt
    \/ MainFinallySet \/ MainJoin
    \/ \E c \in Clients : MainAccept(c)

Next ==
    \/ MainStep
    \/ SchedStep
    \/ \E c \in Clients : ClientStep(c)
    \/ \E t \in Callers : CallStep(t)
    \/ AcqExit

Spec == Init /\ [][Next]_vars

\* ---- the actions one at a time: one control connection sends command
\* ---- after command, each answered before the next is read

\* serve_forever sits in the accept loop with one client connected; the
\* schedule is empty and nobody asks for shutdown
InitOneAtATime ==
    /\ InitDaemon
    /\ net_port = 6789
    /\ port \in Ports
    /\ schedule = <<>>
    /\ clock = 0
    /\ cycleCap = 0
    /\ listening = TRUE
    /\ pc = [t \in {Main} \cup Callers |->
               IF t = Main THEN "accept"
               ELSE IF t = Sched THEN "sched_wait" ELSE "client_head"]

NextOneAtATime ==
    \/ \E c \in Clients : ClientStep(c)
    \/ \E c \in Clients : CallStep(c)
    \/ AcqExit

SpecOneAtATime == InitOneAtATime /\ [][NextOneAtATime]_vars

\* ---- the scheduler on its own, through a full day

\* check cycles in a day
DayCycles == DaySeconds \div SCHEDULE_CHECK_INTERVAL

SchedRawSchedules ==
    { <<Entry(T1930, ACTION_STOP), Entry(T0400, ACTION_START)>>,
      <<Entry(T2359, ACTION_START)>>,
      <<Entry(T0400, ACTION_START), Entry(T0400, ACTION_OVERVIEW), Entry(0, ACTION_STOP)>>,
      <<Entry(T0400, 5), Entry(T0400, ACTION_START), Entry(T0400 - 1, ACTION_OVERVIEW)>> }

SchedStartClocks == {30, T0400, DaySeconds - 30}

\* serve_forever has started the scheduler thread and sits in the accept
\* loop; no client connects and nobody asks for shutdown
InitSched ==
    /\ InitDaemon
    /\ net_port = 6789
    /\ port = "/dev/ttyUSB0"
    /\ \E raw \in SchedRawSchedules : schedule = load_schedule(raw)
    /\ clock \in SchedStartClocks
    /\ cycleCap = DayCycles + 1
    /\ listening = TRUE
    /\ pc = [t \in {Main} \cup Callers |->
               IF t = Main THEN "accept"
               ELSE IF t = Sched THEN "sched_head" ELSE "unconnected"]

NextSched == SchedStep \/ CallStep(Sched) \/ AcqExit

SpecSched == InitSched /\ [][NextSched]_vars

\* ------------------------------------ the frames of a character stream

MESSAGE_START == "$"
MESSAGE_END == "\r"

\* longest text handed to _extract_frames
MaxText == 5

FrameChars == {MESSAGE_START, MESSAGE_END, "A", "B"}

\* the sequences over S of length n
RECURSIVE SeqsOfLen(_, _)
SeqsOfLen(S, n) ==
    IF n = 0 THEN {<<>>}
    ELSE {Append(q, x) : q \in SeqsOfLen(S, n - 1), x \in S}

SeqsUpTo(S, n) == UNION {SeqsOfLen(S, k) : k \in 0..n}

\* a loop body that keeps what the span held when MESSAGE_START comes again
FrameStepNoRestart(st, ch) ==
    IF ch = MESSAGE_START
    THEN [st EXCEPT !.inside = TRUE]
    ELSE IF ch = MESSAGE_END /\ st.inside
         THEN [st EXCEPT !.frames = Append(@, st.buf), !.buf = <<>>, !.inside = FALSE]
         ELSE IF st.inside THEN [st EXCEPT !.buf = Append(@, ch)] ELSE st

\* _extract_frames: the body of the for loop, for the character ch
FrameStep(st, ch) ==
    IF ch = MESSAGE_START
    THEN [st EXCEPT !.buf = <<>>, !.inside = TRUE]
    ELSE IF ch = MESSAGE_END /\ st.inside
         THEN [st EXCEPT !.frames = Append(@, st.buf), !.buf = <<>>, !.inside = FALSE]
         ELSE IF st.inside THEN [st EXCEPT !.buf = Append(@, ch)] ELSE st

\* _extract_frames(text) has been called: frames = [], buf = [], inside = False
InitFrames ==
    /\ InitLifecycleIdle
    /\ \E text \in SeqsUpTo(FrameChars, MaxText) :
         extract = [text |-> text, pos |-> 1, frames |-> <<>>, buf |-> <<>>,
                    inside |-> FALSE, returned |-> FALSE, result |-> <<>>]
    /\ flush = Unused /\ cmd = Unused /\ writer = Unused /\ backend = Unused /\ acq = Unused

\* _extract_frames: one turn of for ch in text
ExtractChar ==
    /\ ~extract.returned
    /\ extract.pos <= Len(extract.text)
    /\ LET st == FrameStep([frames |-> extract.frames, buf |-> extract.buf,
                            inside |-> extract.inside],
                           extract.text[extract.pos])
       IN extract' = [extract EXCEPT !.pos = @ + 1, !.frames = st.frames,
                                     !.buf = st.buf, !.inside = st.inside]
    /\ UNCHANGED <<flush, cmd, writer, backend, acq, lifecycleVars>>

\* _extract_frames: return frames
ExtractReturn ==
    /\ ~extract.returned
    /\ extract.pos > Len(extract.text)
    /\ extract' = [extract EXCEPT !.returned = TRUE, !.result = extract.frames]
    /\ UNCHANGED <<flush, cmd, writer, backend, acq, lifecycleVars>>

NextFrames == ExtractChar \/ ExtractReturn

SpecFrames == InitFrames /\ [][NextFrames]_vars


\* ------------------------------------------ decode-and-flush of a data span

\* the firmware's end marker inside the hex stream, 0x2323
END_MARKER == 2 * 4096 + 3 * 256 + 2 * 16 + 3

\* most complete groups in a hex buffer
MaxGroups == 2

LowerHex == <<"0", "1", "2", "3", "4", "5", "6", "7", "8", "9",
              "a", "b", "c", "d", "e", "f">>
UpperHex == <<"0", "1", "2", "3", "4", "5", "6", "7", "8", "9",
              "A", "B", "C", "D", "E", "F">>

IsHexDigit(ch) == \E i \in 1..16 : LowerHex[i] = ch \/ UpperHex[i] = ch

DigitValue(ch) == (CHOOSE i \in 1..16 : LowerHex[i] = ch \/ UpperHex[i] = ch) - 1

\* the value of a string of hex digits and underscores, underscores skipped
RECURSIVE DigitsValue(_)
DigitsValue(ds) ==
    IF ds = <<>> THEN 0
    ELSE LET front == SubSeq(ds, 1, Len(ds) - 1)
             last == ds[Len(ds)]
         IN IF last = "_" THEN DigitsValue(front)
            ELSE 16 * DigitsValue(front) + DigitValue(last)

\* int(group, 16) on a string without whitespace: an optional sign, an
\* optional 0x prefix that one underscore may follow, then hex digits with
\* single underscores between them; ok is FALSE where int raises ValueError
int_base16(group) ==
    LET signed == Len(group) > 0 /\ group[1] \in {"+", "-"}
        s1 == IF signed THEN Tail(group) ELSE group
        prefixed == Len(s1) >= 2 /\ s1[1] = "0" /\ s1[2] \in {"x", "X"}
        s2 == IF prefixed THEN SubSeq(s1, 3, Len(s1)) ELSE s1
        s3 == IF prefixed /\ Len(s2) > 0 /\ s2[1] = "_" THEN Tail(s2) ELSE s2
        ok == /\ Len(s3) > 0
              /\ \A i \in 1..Len(s3) :
                    \/ IsHexDigit(s3[i])
                    \/ /\ s3[i] = "_"
                       /\ 1 < i /\ i < Len(s3)
                       /\ IsHexDigit(s3[i - 1]) /\ IsHexDigit(s3[i + 1])
        magnitude == IF ok THEN DigitsValue(s3) ELSE 0
    IN [ok |-> ok,
        value |-> IF signed /\ group[1] = "-" THEN 0 - magnitude ELSE magnitude]

\* (value >> 2) & 0xFF, the shift being arithmetic
Reduce8(value) == (value \div 4) % 256

\* 4-character groups a data span can deliver: samples, the end marker, a
\* group with a letter that is no hex digit, and groups with the sign,
\* prefix and separator characters that int accepts
HexGroups ==
    { <<"2", "3", "2", "3">>, <<"0", "0", "0", "0">>, <<"0", "3", "F", "C">>,
      <<"0", "4", "0", "1">>, <<"f", "f", "f", "f">>, <<"0", "0", "g", "0">>,
      <<"-", "0", "0", "1">>, <<"0", "x", "1", "0">>, <<"1", "_", "2", "3">>,
      <<"_", "1", "2", "3">> }

\* what is left over after the last complete group
HexTails == { <<>>, <<"2">>, <<"2", "3", "2">> }

RECURSIVE Concat(_)
Concat(ss) == IF ss = <<>> THEN <<>> ELSE Head(ss) \o Concat(Tail(ss))

\* _flush_data is called at DATA_END with the characters of the span
InitFlush ==
    /\ InitLifecycleIdle
    /\ \E gs \in SeqsUpTo(HexGroups, MaxGroups), tail \in HexTails :
         flush = [hex_chars |-> Concat(gs) \o tail, text |-> <<>>, i |-> 0,
                  end |-> 0, buf |-> <<>>, pc |-> "entry", sink |-> <<>>]
    /\ extract = Unused /\ cmd = Unused /\ writer = Unused /\ backend = Unused /\ acq = Unused

\* _flush_data: nothing collected, or text and end computed
FlushEnter ==
    /\ flush.pc = "entry"
    /\ flush' = IF flush.hex_chars = <<>>
                THEN [flush EXCEPT !.pc = "returned"]
                ELSE [flush EXCEPT !.pc = "for", !.text = flush.hex_chars,
                                   !.end = (Len(flush.hex_chars) \div 4) * 4]
    /\ UNCHANGED <<extract, cmd, writer, backend, acq, lifecycleVars>>

\* _flush_data: one turn of for i in range(0, end, 4)
FlushGroup ==
    /\ flush.pc = "for"
    /\ flush.i < flush.end
    /\ LET parsed == int_base16(SubSeq(flush.text, flush.i + 1, flush.i + 4))
       IN flush' = [flush EXCEPT
                       !.i = @ + 4,
                       !.buf = IF parsed.ok /\ parsed.value # END_MARKER
                               THEN Append(@, Reduce8(parsed.value)) ELSE @]
    /\ UNCHANGED <<extract, cmd, writer, backend, acq, lifecycleVars>>

\* _flush_data: after the loop, return on an empty buf, else hand buf to
\* write_data_buffer and reset hex_chars
FlushWrite ==
    /\ flush.pc = "for"
    /\ flush.i >= flush.end
    /\ flush' = IF flush.buf = <<>>
                THEN [flush EXCEPT !.pc = "returned"]
                ELSE [flush EXCEPT !.pc = "returned", !.hex_chars = <<>>,
                                   !.sink = Append(@, flush.buf)]
    /\ UNCHANGED <<extract, cmd, writer, backend, acq, lifecycleVars>>

NextFlush == FlushEnter \/ FlushGroup \/ FlushWrite

SpecFlush == InitFlush /\ [][NextFlush]_vars

\* ------------------------------------------- the control command table

\* the command words, character by character
CmdQuit == <<"q", "u", "i", "t">>
CmdStart == <<"s", "t", "a", "r", "t">>
CmdStop == <<"s", "t", "o", "p">>
CmdOverview == <<"o", "v", "e", "r", "v", "i", "e", "w">>
CmdOverviewContinuous == <<"o", "v", "e", "r", "v", "i", "e", "w", "-", "c", "o", "n", "t", "i", "n", "u", "o", "u", "s">>
CmdOverviewCont == <<"o", "v", "e", "r", "v", "i", "e", "w", "-", "c", "o", "n", "t">>
CmdOverviewStop == <<"o", "v", "e", "r", "v", "i", "e", "w", "-", "s", "t", "o", "p">>
CmdOverviewOff == <<"o", "v", "e", "r", "v", "i", "e", "w", "-", "o", "f", "f">>
CmdGet == <<"g", "e", "t">>

LowerLetters == <<"a", "b", "c", "d", "e", "f", "g", "h", "i", "j", "k", "l", "m", "n", "o", "p", "q", "r", "s", "t", "u", "v", "w", "x", "y", "z">>
UpperLetters == <<"A", "B", "C", "D", "E", "F", "G", "H", "I", "J", "K", "L", "M", "N", "O", "P", "Q", "R", "S", "T", "U", "V", "W", "X", "Y", "Z">>

\* str.lower and str.upper, per character
LowerChar(ch) ==
    IF \E i \in 1..26 : UpperLetters[i] = ch
    THEN LowerLetters[CHOOSE i \in 1..26 : UpperLetters[i] = ch] ELSE ch
UpperChar(ch) ==
    IF \E i \in 1..26 : LowerLetters[i] = ch
    THEN UpperLetters[CHOOSE i \in 1..26 : LowerLetters[i] = ch] ELSE ch
Lower(s) == [i \in 1..Len(s) |-> LowerChar(s[i])]
Upper(s) == [i \in 1..Len(s) |-> UpperChar(s[i])]
Capitalize(s) == [i \in 1..Len(s) |-> IF i = 1 THEN UpperChar(s[i]) ELSE s[i]]

Whitespace == {" ", "\t", "\n", "\r"}

\* str.strip
RECURSIVE LStrip(_)
LStrip(s) == IF s # <<>> /\ Head(s) \in Whitespace THEN LStrip(Tail(s)) ELSE s
RECURSIVE RStrip(_)
RStrip(s) ==
    IF s # <<>> /\ s[Len(s)] \in Whitespace
    THEN RStrip(SubSeq(s, 1, Len(s) - 1)) ELSE s
Strip(s) == RStrip(LStrip(s))

\* a command taken as typed, only trimmed
NormalizeKeepCase(line) == Strip(line)

\* process_client_command: cmd = (line or "").strip().lower()
Normalize(line) == Lower(Strip(line))

\* the callback a branch runs, overview-cont taken for the one-shot overview
CallbackOfContAsOnce(c) ==
    IF c = CmdStart THEN "on_start"
    ELSE IF c = CmdStop THEN "on_stop"
    ELSE IF c \in {CmdOverview, CmdOverviewCont} THEN "on_overview_once"
    ELSE IF c = CmdOverviewContinuous THEN "on_overview_continuous"
    ELSE IF c \in {CmdOverviewStop, CmdOverviewOff} THEN "on_overview_off"
    ELSE None

\* process_client_command: the callback the branch for cmd runs, if any
CallbackOf(c) ==
    IF c = <<>> \/ c = CmdQuit THEN None
    ELSE IF c = CmdStart THEN "on_start"
    ELSE IF c = CmdStop THEN "on_stop"
    ELSE IF c = CmdOverview THEN "on_overview_once"
    ELSE IF c \in {CmdOverviewContinuous, CmdOverviewCont} THEN "on_overview_continuous"
    ELSE IF c \in {CmdOverviewStop, CmdOverviewOff} THEN "on_overview_off"
    ELSE None

\* a response "<text>\n\n", where %s in text stands for arg; and the None
\* that tells the caller to close the connection
Reply(text, arg) == [close |-> FALSE, text |-> text, arg |-> arg, newlines |-> 2]
CloseSignal == [close |-> TRUE, text |-> "", arg |-> <<>>, newlines |-> 0]

\* process_client_command: what the branch for cmd returns, ret being what
\* on_overview_continuous returned
ResponseOf(c, ret) ==
    IF c = <<>> THEN Reply("OK", <<>>)
    ELSE IF c = CmdQuit THEN CloseSignal
    ELSE IF c = CmdStart THEN Reply("OK starting new FITS file", <<>>)
    ELSE IF c = CmdStop THEN Reply("OK stopping", <<>>)
    ELSE IF c = CmdOverview THEN Reply("OK starting spectral overview", <<>>)
    ELSE IF c \in {CmdOverviewContinuous, CmdOverviewCont}
         THEN IF ~ret
              THEN Reply("ERROR HDF5 backend unavailable (install python3-h5py)", <<>>)
              ELSE Reply("OK starting continuous spectral overview in HDF5 (window=filetime)", <<>>)
    ELSE IF c \in {CmdOverviewStop, CmdOverviewOff}
         THEN Reply("OK stopping continuous spectral overview", <<>>)
    ELSE IF c = CmdGet THEN Reply("ERROR no data (yet)", <<>>)
    ELSE Reply("ERROR unrecognized command (%s)", c)

\* the words a client may type, and the lines they arrive in
TypedWords ==
    LET known == {CmdQuit, CmdStart, CmdStop, CmdOverview, CmdOverviewContinuous,
                  CmdOverviewCont, CmdOverviewStop, CmdOverviewOff, CmdGet}
        other == {<<>>, <<"s", "t", "a", "r", "t", "s">>, <<"g", "e", " ", "t">>,
                  <<"o", "v", "e", "r", "v", "i", "e", "w", "-">>, <<"?">>}
    IN known \cup {Upper(w) : w \in known} \cup {Capitalize(w) : w \in known}
         \cup other
LeftPads == {<<>>, <<" ">>}
RightPads == {<<>>, <<"\n">>, <<"\r", "\n">>}

\* process_client_command(line, ...) has been called
InitCommand ==
    /\ InitLifecycleIdle
    /\ \E w \in TypedWords, l \in LeftPads, r \in RightPads, ret \in BOOLEAN :
         cmd = [line |-> l \o w \o r, cmd |-> <<>>, ret |-> ret, calls |-> <<>>,
                pc |-> "entry", response |-> CloseSignal]
    /\ extract = Unused /\ flush = Unused /\ writer = Unused /\ backend = Unused /\ acq = Unused

\* process_client_command: cmd = (line or "").strip().lower()
CommandNormalize ==
    /\ cmd.pc = "entry"
    /\ cmd' = [cmd EXCEPT !.cmd = Normalize(cmd.line), !.pc = "dispatch"]
    /\ UNCHANGED <<extract, flush, writer, backend, acq, lifecycleVars>>

\* process_client_command: the chain of ifs, the callback and the return
CommandDispatch ==
    /\ cmd.pc = "dispatch"
    /\ cmd' = [cmd EXCEPT
                  !.calls = IF CallbackOf(cmd.cmd) = None THEN @
                            ELSE Append(@, CallbackOf(cmd.cmd)),
                  !.response = ResponseOf(cmd.cmd, cmd.ret),
                  !.pc = "returned"]
    /\ UNCHANGED <<extract, flush, writer, backend, acq, lifecycleVars>>

NextCommand == CommandNormalize \/ CommandDispatch

SpecCommand == InitCommand /\ [][NextCommand]_vars

\* ------------------------------------------------ the DataWriterEngine

US_PER_SECOND == 1000000

\* most writes made to one engine
MaxWrites == 3
\* the timestamps handed to the engine are multiples of half a second, up to
\* this many
MaxTicks == 6
\* longest byte buffer handed to _build_matrix_and_axes
MaxBuf == 7

Max2(a, b) == IF a >= b THEN a ELSE b

\* a path: the kind of file and the second its name is stamped with
\* (strftime("%Y%m%d_%H%M%S") of the timestamp, in UTC); no path yet
NoPath == [kind |-> "none", stamp |-> 0]
Path(kind, ts_us) == [kind |-> kind, stamp |-> ts_us \div US_PER_SECOND]

\* _fits_new_path, _overview_hdf5_new_path
fits_new_path(ts_us) == Path("CALLISTO", ts_us)
overview_hdf5_new_path(ts_us) == Path("OVS", ts_us)

\* a rotation test that compares the file's age with filetime alone
RotationDueNoFloor(path, start, ts_us, filetime) ==
    \/ path = NoPath \/ start <= 0
    \/ ts_us - start >= filetime * US_PER_SECOND

\* _fits_rotate_if_needed / _overview_hdf5_rotate_if_needed: is a new file
\* started for a write at ts_us (elapsed = (ts_us - start) / 1_000_000)
RotationDue(path, start, ts_us, filetime) ==
    \/ path = NoPath \/ start <= 0
    \/ ts_us - start >= Max2(1, filetime) * US_PER_SECOND

\* the rotation and sequence fields of an engine
RotationState(w) ==
    [fits_current_path |-> w.fits_current_path,
     fits_current_start |-> w.fits_current_start,
     fits_seq |-> w.fits_seq,
     ovs_hdf5_current_path |-> w.ovs_hdf5_current_path,
     ovs_hdf5_current_start |-> w.ovs_hdf5_current_start,
     ovs_hdf5_seq |-> w.ovs_hdf5_seq,
     files |-> w.files]

NoOp == [op |-> "none", n |-> 0, ts_us |-> 0, reached |-> FALSE,
         published |-> "none", init |-> "none", calls |-> <<>>]
NothingBuilt == [raw |-> <<>>, ts_us |-> 0, matrix |-> <<>>, timestamps_us |-> <<>>]

FormatFits == <<"f", "i", "t", "s">>
FormatHdf5 == <<"h", "d", "f", "5">>
FormatH5 == <<"h", "5">>

\* DataWriterEngine.__init__ for a configuration with the default output
\* format; the storage backends are loaded lazily, streaming is not
\* configured (_zmq_setup returns without an endpoint)
NewEngine(filetime, samplerate, nchannels, channel_frequencies) ==
    [filetime |-> filetime, samplerate |-> samplerate, nchannels |-> nchannels,
     channel_frequencies |-> channel_frequencies,
     output_format |-> FormatFits,
     astropy_fits |-> FALSE, h5py |-> FALSE, inits |-> 0,
     zmq_enabled |-> FALSE,
     fits_current_path |-> NoPath, fits_current_start |-> 0, fits_seq |-> 0,
     ovs_hdf5_current_path |-> NoPath, ovs_hdf5_current_start |-> 0,
     ovs_hdf5_seq |-> 0,
     files |-> {}, names |-> <<>>, writes |-> 0,
     before |-> <<>>, last |-> NoOp, built |-> NothingBuilt]

TsValues == {k * (US_PER_SECOND \div 2) : k \in 1..MaxTicks}

\* a sequence counter that starts again at 0 in a new file
SeqUsedResetOnRotation(seq, due) == IF due THEN 0 ELSE seq

\* _fits_write_buffer / _hdf5_write_buffer: the number in the extension or
\* group name, DATA{self._fits_seq:05d}, rotation or not
SeqUsed(seq, due) == seq

\* _fits_write_buffer / _hdf5_write_buffer for a buffer of n bytes: nothing
\* for an empty buffer, else rotate, take the path and the sequence number,
\* and append to the file
StoreBuffer(w, n, ts_us) ==
    IF n = 0 THEN w
    ELSE LET due == RotationDue(w.fits_current_path, w.fits_current_start,
                                ts_us, w.filetime)
             path == IF due THEN fits_new_path(ts_us) ELSE w.fits_current_path
             used == SeqUsed(w.fits_seq, due)
         IN [w EXCEPT !.fits_current_start = IF due THEN ts_us ELSE @,
                      !.fits_current_path = path,
                      !.names = Append(@, used),
                      !.fits_seq = used + 1,
                      !.files = @ \cup {path}]

\* an output format that is only trimmed
NormalizedOnlyTrimmed(value) ==
    LET v == Strip(IF value = <<>> THEN FormatFits ELSE value)
    IN IF v \in {FormatHdf5, FormatH5} THEN FormatHdf5 ELSE FormatFits

\* normalized_output_format: (value or "fits").strip().lower()
normalized_output_format(value) ==
    LET v == Lower(Strip(IF value = <<>> THEN FormatFits ELSE value))
    IN IF v \in {FormatHdf5, FormatH5} THEN FormatHdf5 ELSE FormatFits

\* a publication failure that leaves write_data_buffer
PublishEscapesOnFailure(published) == published = "failed"

\* write_data_buffer, except Exception around the publication: the failure
\* is logged and does not leave the try statement
PublishEscapes(published) == FALSE

\* an initialisation that does not keep the module it loaded
ModuleNotKept(module, initOk) == module

\* fits_init / hdf5_init: the module is kept in self._astropy_fits or
\* self._h5py when the import succeeded
ModuleAfterInit(module, initOk) == module \/ initOk

\* write_data_buffer(buf_bytes, ts_us) for a buffer of n bytes: the frame is
\* published when streaming is enabled and the buffer is not empty, the
\* backend named by the output format is initialised on first use, the write
\* is given up when that fails, and else goes to that backend's writer
write_data_buffer(w, n, ts_us, initOk, pubOk) ==
    LET published == IF w.zmq_enabled /\ n > 0
                     THEN IF pubOk THEN "sent" ELSE "failed" ELSE "none"
        hdf5 == normalized_output_format(w.output_format) = FormatHdf5
        module == IF hdf5 THEN w.h5py ELSE w.astropy_fits
        reached == module \/ initOk
        kept == ModuleAfterInit(module, initOk)
        calls == (IF module THEN <<>>
                  ELSE IF hdf5 THEN <<"hdf5_init">> ELSE <<"fits_init">>)
                 \o (IF ~reached THEN <<>>
                     ELSE IF hdf5 THEN <<"_hdf5_write_buffer">>
                     ELSE <<"_fits_write_buffer">>)
        entered == [w EXCEPT
                      !.writes = @ + 1,
                      !.before = RotationState(w),
                      !.last = [op |-> "data", n |-> n, ts_us |-> ts_us,
                                reached |-> FALSE, published |-> published,
                                init |-> "none", calls |-> <<>>]]
        w1 == [entered EXCEPT
                  !.h5py = IF hdf5 THEN kept ELSE @,
                  !.astropy_fits = IF hdf5 THEN @ ELSE kept,
                  !.inits = IF ~module /\ initOk THEN @ + 1 ELSE @,
                  !.last.reached = reached /\ n > 0,
                  !.last.init = IF module THEN "skipped"
                                ELSE IF initOk THEN "loaded" ELSE "failed",
                  !.last.calls = calls]
    IN IF PublishEscapes(published) THEN entered
       ELSE IF reached THEN StoreBuffer(w1, n, ts_us) ELSE w1

WriteDataBuffer ==
    /\ writer.writes < MaxWrites
    /\ \E n \in 0..1, ts_us \in TsValues, initOk \in BOOLEAN, pubOk \in BOOLEAN :
         writer' = write_data_buffer(writer, n, ts_us, initOk, pubOk)
    /\ UNCHANGED <<extract, flush, cmd, backend, acq, lifecycleVars>>

\* a guard that lets an empty point list through
PointsEmptyIgnored(n) == FALSE

\* save_overview_hdf5: if not points
PointsEmpty(n) == n = 0

\* an overview that rotates and counts on the fields of the regular data
StoreOverviewShared(w, ts_us, wrote) ==
    LET due == RotationDue(w.fits_current_path, w.fits_current_start,
                           ts_us, w.filetime)
        path == IF due THEN overview_hdf5_new_path(ts_us)
                ELSE w.fits_current_path
    IN [w EXCEPT !.fits_current_start = IF due THEN ts_us ELSE @,
                 !.fits_current_path = path,
                 !.fits_seq = @ + 1,
                 !.files = IF wrote THEN @ \cup {path} ELSE @]

\* save_overview_hdf5 with points: rotate the overview file, take the path
\* and the sequence number, and append to the file
StoreOverview(w, ts_us, wrote) ==
    LET due == RotationDue(w.ovs_hdf5_current_path, w.ovs_hdf5_current_start,
                           ts_us, w.filetime)
        path == IF due THEN overview_hdf5_new_path(ts_us)
                ELSE w.ovs_hdf5_current_path
    IN [w EXCEPT !.ovs_hdf5_current_start = IF due THEN ts_us ELSE @,
                 !.ovs_hdf5_current_path = path,
                 !.ovs_hdf5_seq = @ + 1,
                 !.files = IF wrote THEN @ \cup {path} ELSE @]

\* save_overview_hdf5(points, ts_epoch) for n points: nothing for an empty
\* list, else rotate the overview file, take the path and the sequence
\* number, and append to the file (self._h5py.File raises when h5py was never
\* loaded or the file cannot be written)
SaveOverviewHdf5 ==
    /\ writer.writes < MaxWrites
    /\ \E n \in 0..1, ts_epoch \in 1..(MaxTicks \div 2), wrote \in BOOLEAN :
         LET ts_us == ts_epoch * US_PER_SECOND
             w == [writer EXCEPT
                      !.writes = @ + 1,
                      !.before = RotationState(writer),
                      !.last = [NoOp EXCEPT !.op = "overview", !.n = n,
                                               !.ts_us = ts_us,
                                               !.reached = n > 0]]
         IN writer' = IF PointsEmpty(n) THEN w ELSE StoreOverview(w, ts_us, wrote)
    /\ UNCHANGED <<extract, flush, cmd, backend, acq, lifecycleVars>>

FileTimes == {0, 1, 2}

\* an engine as the daemon constructs it, before the first write
InitWriter ==
    /\ InitLifecycleIdle
    /\ \E filetime \in FileTimes : writer = NewEngine(filetime, 1, 1, <<>>)
    /\ extract = Unused /\ flush = Unused /\ cmd = Unused /\ backend = Unused /\ acq = Unused

NextWriter == WriteDataBuffer \/ SaveOverviewHdf5

SpecWriter == InitWriter /\ [][NextWriter]_vars

\* the output formats an engine is configured with
OutputFormats ==
    { <<>>, FormatFits, FormatHdf5, FormatH5, <<"H", "D", "F", "5">>,
      <<" ", "H", "5", "\n">>, <<"h", "d", "f">>, <<"h", "5", " ", "x">>,
      <<" ">> }

\* engines with each output format, streaming enabled (_zmq_setup found an
\* endpoint and the publisher started) or not
InitRoute ==
    /\ InitLifecycleIdle
    /\ \E output_format \in OutputFormats, zmq \in BOOLEAN :
         writer = [NewEngine(1, 1, 1, <<>>) EXCEPT
                      !.output_format = output_format, !.zmq_enabled = zmq]
    /\ extract = Unused /\ flush = Unused /\ cmd = Unused /\ backend = Unused /\ acq = Unused

NextRoute == WriteDataBuffer

SpecRoute == InitRoute /\ [][NextRoute]_vars

\* ---- _build_matrix_and_axes

\* nchan: the frequency table's length when there is a table, else the
\* configured channel count, and 1 at least
ChannelCountConfigured(w) == Max2(1, w.nchannels)

ChannelCount(w) ==
    IF w.channel_frequencies # <<>>
    THEN Max2(1, Len(w.channel_frequencies))
    ELSE Max2(1, w.nchannels)

\* raw.reshape: one short row, or nsweeps full rows of the trimmed buffer
Reshape(raw, nchan) ==
    IF Len(raw) < nchan
    THEN << raw >>
    ELSE [r \in 1..(Len(raw) \div nchan) |->
             SubSeq(raw, (r - 1) * nchan + 1, r * nchan)]

\* step_us = int(1_000_000 / max(1, int(samplerate)))
StepUs(samplerate) == US_PER_SECOND \div Max2(1, samplerate)

\* an axis whose first entry is one step late
SweepTimestampLate(ts_us, i, step_us) == ts_us + (i + 1) * step_us

\* int(ts_us) + i * step_us, for i in range(nsweeps)
SweepTimestamp(ts_us, i, step_us) == ts_us + i * step_us

\* _build_matrix_and_axes(buf_bytes, ts_us): the matrix and timestamps_us
build_matrix_and_axes(w, raw, ts_us) ==
    LET matrix == Reshape(raw, ChannelCount(w))
        nsweeps == Len(matrix)
        step_us == StepUs(w.samplerate)
    IN [raw |-> raw, ts_us |-> ts_us, matrix |-> matrix,
        timestamps_us |-> [k \in 1..nsweeps |-> SweepTimestamp(ts_us, k - 1, step_us)]]

\* the bytes 1, 2, ... n
Bytes(n) == [k \in 1..n |-> k % 256]

SampleRates == {-1, 0, 1, 2, 3, 800, US_PER_SECOND, US_PER_SECOND + 1, 2 * US_PER_SECOND}
ChannelCounts == {-1, 0, 1, 2, 3}
FrequencyTables == {<<>>, <<45, 46>>}

BuildMatrixAndAxes ==
    /\ \E n \in 0..MaxBuf, ts_us \in {US_PER_SECOND, 3 * (US_PER_SECOND \div 2)} :
         writer' = [writer EXCEPT !.built = build_matrix_and_axes(writer, Bytes(n), ts_us)]
    /\ UNCHANGED <<extract, flush, cmd, backend, acq, lifecycleVars>>

InitMatrix ==
    /\ InitLifecycleIdle
    /\ \E samplerate \in SampleRates, nchannels \in ChannelCounts,
          table \in FrequencyTables :
         writer = NewEngine(1, samplerate, nchannels, table)
    /\ extract = Unused /\ flush = Unused /\ cmd = Unused /\ backend = Unused /\ acq = Unused

NextMatrix == BuildMatrixAndAxes

SpecMatrix == InitMatrix /\ [][NextMatrix]_vars

\* ------------------------------------------------ the AsyncSerialBackend

\* queue.Queue(maxsize=65536)
QUEUE_MAXSIZE == 65536

\* most data_received calls on one queue
MaxRx == 2

\* most read_char calls on one queue
MaxReads == 2

\* the queue's content and a received block of bytes are sequences of
\* characters, written as runs: n copies of ch
Run(ch, n) == [ch |-> ch, n |-> n]

\* Queue.qsize
RECURSIVE qsize(_)
qsize(q) == IF q = <<>> THEN 0 ELSE Head(q).n + qsize(Tail(q))

\* n more copies of ch at the back of the queue
PutRun(q, ch, n) ==
    IF n = 0 THEN q
    ELSE IF q # <<>> /\ q[Len(q)].ch = ch
         THEN [q EXCEPT ![Len(q)].n = @ + n]
         ELSE Append(q, Run(ch, n))

\* a queue on which put_nowait never finds the queue full
QueueRoomUnbounded(q) == QUEUE_MAXSIZE

\* how many put_nowait calls succeed before one raises queue.Full
QueueRoom(q) == QUEUE_MAXSIZE - qsize(q)

\* Queue.get on a queue that is not empty
QueueGet(q) ==
    [item |-> Head(q).ch,
     rest |-> IF Head(q).n = 1 THEN Tail(q) ELSE [q EXCEPT ![1].n = @ - 1]]

\* _AsyncSerialProtocol.data_received: put_nowait byte after byte, and the
\* loop is left at the first queue.Full
RECURSIVE data_received(_, _)
data_received(q, data) ==
    IF data = <<>> THEN q
    ELSE LET r == Head(data)
             k == IF r.n <= QueueRoom(q) THEN r.n ELSE QueueRoom(q)
         IN IF k < r.n THEN PutRun(q, r.ch, k)
            ELSE data_received(PutRun(q, r.ch, k), Tail(data))

\* the blocks of bytes the port delivers
RxBlocks ==
    { <<Run("$", 1)>>, <<Run("2", 1), Run("$", 1)>>,
      <<Run("2", QUEUE_MAXSIZE - 1)>> }

\* AsyncSerialBackend.__init__: no handle is set
NewBackend ==
    [loop |-> FALSE, thread |-> FALSE, transport |-> FALSE, protocol |-> FALSE,
     read_queue |-> <<>>, pc |-> "idle", failedAt |-> "none",
     failedStart |-> FALSE, last |-> [op |-> "none", result |-> "none"],
     link |-> "new", before |-> <<>>, data |-> <<>>, raised |-> {},
     rx |-> 0, reads |-> 0]

\* stop(): whatever its teardown steps did, the four handles end up None
Teardown(b) ==
    [b EXCEPT !.loop = FALSE, !.thread = FALSE, !.transport = FALSE,
              !.protocol = FALSE]

\* the four guarded teardown steps of stop
StopSteps == {"transport_close", "loop_stop", "thread_join", "loop_close"}

\* a stop that keeps the handles when a teardown step raised
StopResetUnlessRaised(b, raised) == IF raised = {} THEN Teardown(b) ELSE b

\* stop, its last four statements: they follow the try blocks
StopResetHandles(b, raised) == Teardown(b)

\* stop(): each step runs when its handles are set, the steps in fails
\* raise and are caught by their own except, and the handles are reset
stop(b, fails, running) ==
    LET attempted ==
            {s \in StopSteps :
                \/ s = "transport_close" /\ b.loop /\ b.transport
                \/ s = "loop_stop" /\ b.loop
                \/ s = "thread_join" /\ b.thread
                \/ s = "loop_close" /\ b.loop /\ ~running}
        raised == attempted \cap fails
    IN [StopResetHandles(b, raised) EXCEPT !.raised = raised]

\* an except branch that only logs
ExceptLogOnly(b) == b

\* start, except Exception: the log line and self.stop()
ExceptCleanup(b) == Teardown(b)

\* start: self.stop(), a new read queue, and into the try block
BackendStart ==
    /\ backend.pc = "idle"
    /\ backend' = [Teardown(backend) EXCEPT !.read_queue = <<>>, !.pc = "import",
                                            !.failedAt = "none",
                                            !.link = "starting",
                                            !.before = <<>>, !.data = <<>>,
                                            !.raised = {},
                                            !.rx = 0, !.reads = 0]
    /\ UNCHANGED <<extract, flush, cmd, writer, acq, lifecycleVars>>

\* one statement of the try block of start succeeds and sets its handles, or
\* raises and leaves them
TryStep(at, to, ok, set) ==
    /\ backend.pc = at
    /\ backend' = IF ok THEN [set EXCEPT !.pc = to]
                  ELSE [set EXCEPT !.pc = "except", !.failedAt = at]
    /\ UNCHANGED <<extract, flush, cmd, writer, acq, lifecycleVars>>

\* start: serial_asyncio = self._load_serial_asyncio()
BackendImport == \E ok \in BOOLEAN : TryStep("import", "loop", ok, backend)

\* start: self._loop = asyncio.new_event_loop()
BackendNewLoop ==
    \E ok \in BOOLEAN :
        TryStep("loop", "thread", ok, [backend EXCEPT !.loop = ok])

\* start: self._thread = threading.Thread(...); self._thread.start()
BackendThread ==
    \E ok \in BOOLEAN :
        TryStep("thread", "open", ok, [backend EXCEPT !.thread = TRUE])

\* start: fut.result(timeout=5.0) gives transport and protocol, return True;
\* or the open fails or times out
BackendOpen ==
    \E ok \in BOOLEAN :
        TryStep("open", "idle", ok,
                IF ok THEN [backend EXCEPT !.transport = TRUE, !.protocol = TRUE,
                                           !.failedStart = FALSE,
                                           !.link = "started",
                                           !.last = [op |-> "start", result |-> "true"]]
                ELSE backend)

\* start: except Exception: log, self.stop(), return False
BackendExcept ==
    /\ backend.pc = "except"
    /\ backend' = [ExceptCleanup(backend) EXCEPT
                      !.pc = "idle", !.failedStart = TRUE,
                      !.link = "failed",
                      !.last = [op |-> "start", result |-> "false"]]
    /\ UNCHANGED <<extract, flush, cmd, writer, acq, lifecycleVars>>

\* stop()
BackendStop ==
    /\ backend.pc = "idle"
    /\ \E fails \in SUBSET StopSteps, running \in BOOLEAN :
         backend' = [stop(backend, fails, running) EXCEPT
                        !.link = "stopped",
                        !.before = <<>>, !.data = <<>>,
                        !.last = [op |-> "stop", result |-> "none"]]
    /\ UNCHANGED <<extract, flush, cmd, writer, acq, lifecycleVars>>

\* a read_char that goes to the queue whatever the loop handle is
ReadCharGuardNone(b) == FALSE

\* read_char: if self._loop is None: return None
ReadCharGuard(b) == ~b.loop

\* read_char: None without a loop, else the oldest queued character, or None
\* when the timeout passes with the queue empty
BackendReadChar ==
    /\ backend.pc = "idle"
    /\ backend.reads < MaxReads
    /\ backend' =
         IF ReadCharGuard(backend) \/ backend.read_queue = <<>>
         THEN [backend EXCEPT !.last = [op |-> "read_char", result |-> "none"],
                              !.before = backend.read_queue, !.data = <<>>,
                              !.reads = @ + 1]
         ELSE [backend EXCEPT !.read_queue = QueueGet(@).rest,
                              !.before = backend.read_queue, !.data = <<>>,
                              !.reads = @ + 1,
                              !.last = [op |-> "read_char",
                                        result |-> QueueGet(backend.read_queue).item]]
    /\ UNCHANGED <<extract, flush, cmd, writer, acq, lifecycleVars>>

\* write: returns at once without a loop or a transport, else hands the
\* bytes to the loop
BackendWrite ==
    /\ backend.pc = "idle"
    /\ backend' = [backend EXCEPT
                      !.before = <<>>, !.data = <<>>,
                      !.last = [op |-> "write",
                                result |-> IF backend.loop /\ backend.transport
                                           THEN "dispatched" ELSE "ignored"]]
    /\ UNCHANGED <<extract, flush, cmd, writer, acq, lifecycleVars>>

\* _AsyncSerialProtocol.data_received on an open connection, called by the
\* loop with a block of bytes
BackendDataReceived ==
    /\ backend.transport /\ backend.protocol
    /\ backend.rx < MaxRx
    /\ \E data \in RxBlocks :
         backend' = [backend EXCEPT
                        !.read_queue = data_received(@, data),
                        !.before = backend.read_queue, !.data = data,
                        !.rx = @ + 1,
                        !.last = [op |-> "data_received", result |-> "returned"]]
    /\ UNCHANGED <<extract, flush, cmd, writer, acq, lifecycleVars>>

\* _on_lost: the connection is lost, self._transport = None
BackendConnectionLost ==
    /\ backend.transport
    /\ backend' = [backend EXCEPT !.transport = FALSE]
    /\ UNCHANGED <<extract, flush, cmd, writer, acq, lifecycleVars>>

InitBackend ==
    /\ InitLifecycleIdle
    /\ backend = NewBackend
    /\ extract = Unused /\ flush = Unused /\ cmd = Unused /\ writer = Unused
    /\ acq = Unused

NextBackend ==
    \/ BackendStart \/ BackendImport \/ BackendNewLoop \/ BackendThread
    \/ BackendOpen \/ BackendExcept \/ BackendStop
    \/ BackendReadChar \/ BackendWrite
    \/ BackendDataReceived \/ BackendConnectionLost

SpecBackend == InitBackend /\ [][NextBackend]_vars

\* ------------------------------------------- the acquisition loop's decoder

DATA_START == "2"
DATA_END == "&"
EEPROM_READY == "]"
MAX_MESSAGE == 128

\* most characters read in one run of the model's loop
MaxChars == 4

\* the characters the link delivers: the five framing characters, a blank
\* and a character with no role
AcqChars == {MESSAGE_START, MESSAGE_END, DATA_START, DATA_END, EEPROM_READY, " ", "x"}

\* n copies of ch
Repeat(ch, n) == [i \in 1..n |-> ch]

\* the samples of the complete 4-character groups of text, from position i
RECURSIVE DecodeGroups(_, _)
DecodeGroups(text, i) ==
    IF i + 4 > Len(text) THEN <<>>
    ELSE LET parsed == int_base16(SubSeq(text, i + 1, i + 4))
         IN (IF parsed.ok /\ parsed.value # END_MARKER
             THEN <<Reduce8(parsed.value)>> ELSE <<>>)
            \o DecodeGroups(text, i + 4)

\* what write_data_buffer does with a buffer: it stores it, it gives the
\* write up (the backend could not be initialised), or it raises
WriteOutcomes == {"stored", "abandoned", "raised"}

\* a _flush_data whose except clause lets the failure of the write through
WriteFailureEscapes(outcome) == outcome = "raised"

\* _flush_data: except Exception as exc around write_data_buffer logs
WriteFailureLeaves(outcome) == FALSE

\* _flush_data as the loop sees it: the buffer handed to write_data_buffer,
\* if any, and hex_chars, reset only after a write; failed tells that an
\* exception leaves _flush_data
FlushData(hex_chars, outcome) ==
    LET buf == DecodeGroups(hex_chars, 0)
    IN IF hex_chars = <<>> \/ buf = <<>>
       THEN [hex_chars |-> hex_chars, wrote |-> FALSE, buf |-> <<>>,
             failed |-> FALSE]
       ELSE IF WriteFailureLeaves(outcome)
       THEN [hex_chars |-> hex_chars, wrote |-> TRUE, buf |-> buf,
             failed |-> TRUE]
       ELSE [hex_chars |-> <<>>, wrote |-> TRUE, buf |-> buf, failed |-> FALSE]

NoStep == [ch |-> "", in_message |-> FALSE, in_data |-> FALSE, message |-> <<>>,
           hex_chars |-> <<>>, event |-> "none", text |-> <<>>,
           outcome |-> "none"]

\* most runs of the acquisition loop
MaxRuns == 2

\* the locals at the top of _acquisition_loop, the two events the while
\* condition reads, and the buffers handed to write_data_buffer so far;
\* history: the number of characters taken when this run began, whether the
\* run before ended inside a data span, and the hex characters it held
NewLoop ==
    [in_message |-> FALSE, in_data |-> FALSE, message |-> <<>>, hex_chars |-> <<>>,
     pc |-> "loop", acq_stop |-> FALSE, stop_event |-> FALSE,
     run |-> 1, sink |-> <<>>, failures |-> 0, n |-> 0, last |-> NoStep,
     runStart |-> 0, cut |-> FALSE, dropped |-> <<>>]

\* locals that outlive the call of _acquisition_loop
LocalsKept(a) == a

\* _acquisition_loop, its first lines: every run begins with new locals
LocalsAtStart(a) == NewLoop

\* a message cap that is not applied
MessageHasRoomAlways(message) == TRUE

\* len(message) < MAX_MESSAGE
MessageHasRoom(message) == Len(message) < MAX_MESSAGE

\* one turn of the while loop for a character ch that read_char returned:
\* the branches in the order of the code, each ending in continue; outcome
\* is what write_data_buffer does if this turn calls it
LoopTurn(a, ch, outcome) ==
    LET was == [NoStep EXCEPT !.ch = ch, !.in_message = a.in_message,
                              !.in_data = a.in_data, !.message = a.message,
                              !.hex_chars = a.hex_chars]
        b == [a EXCEPT !.n = @ + 1, !.last = was]
    IN IF a.in_message /\ ch = MESSAGE_END
       THEN [b EXCEPT !.in_message = FALSE, !.message = <<>>,
                      !.last.event = "message", !.last.text = a.message]
       ELSE IF ~a.in_message /\ ch = MESSAGE_START
       THEN [b EXCEPT !.in_message = TRUE, !.message = <<>>]
       ELSE IF a.in_message
       THEN IF MessageHasRoom(a.message)
            THEN [b EXCEPT !.message = Append(@, ch)]
            ELSE b
       ELSE IF ch = EEPROM_READY
       THEN b
       ELSE IF ~a.in_data /\ ch = DATA_START
       THEN [b EXCEPT !.in_data = TRUE, !.hex_chars = <<>>]
       ELSE IF a.in_data /\ ch = DATA_END
       THEN LET flushed == FlushData(a.hex_chars, outcome)
            IN IF flushed.failed
               THEN [b EXCEPT !.pc = "raised",
                              !.sink = Append(@, flushed.buf),
                              !.last.event = "write", !.last.text = flushed.buf,
                              !.last.outcome = outcome]
               ELSE [b EXCEPT !.in_data = FALSE, !.hex_chars = flushed.hex_chars,
                         !.sink = IF flushed.wrote THEN Append(@, flushed.buf) ELSE @,
                         !.failures = IF flushed.wrote /\ outcome # "stored"
                                      THEN @ + 1 ELSE @,
                         !.last.event = IF flushed.wrote THEN "write" ELSE "flush",
                         !.last.text = flushed.buf,
                         !.last.outcome = IF flushed.wrote THEN outcome ELSE "none"]
       ELSE IF a.in_data
       THEN IF ch \notin Whitespace
            THEN [b EXCEPT !.hex_chars = Append(@, ch)]
            ELSE b
       ELSE [b EXCEPT !.last.event = "unexpected"]

\* a while condition that also ends the loop on an unexpected character
LoopEndsOnNoise(a) == a.acq_stop \/ a.stop_event \/ a.last.event = "unexpected"

\* _acquisition_loop: the while condition is false
LoopEnds(a) == a.acq_stop \/ a.stop_event

\* _acquisition_loop: the while condition holds and read_char returned a
\* character (a read that times out goes back to the condition)
AcqChar ==
    /\ acq.pc = "loop" /\ ~LoopEnds(acq)
    /\ acq.n < MaxChars
    /\ \E ch \in AcqChars, outcome \in WriteOutcomes :
         acq' = LoopTurn(acq, ch, outcome)
    /\ UNCHANGED <<extract, flush, cmd, writer, backend, lifecycleVars>>

\* _acquisition_loop: the while condition is found false and the function
\* returns; its locals are gone
AcqLoopExit ==
    /\ acq.pc = "loop" /\ LoopEnds(acq)
    /\ acq' = [acq EXCEPT !.pc = "exited", !.cut = acq.in_data,
                          !.dropped = IF acq.in_data THEN acq.hex_chars ELSE <<>>]
    /\ UNCHANGED <<extract, flush, cmd, writer, backend, lifecycleVars>>

\* stop_recording: self._acq_stop.set()
AcqStopSet ==
    /\ acq.pc = "loop" /\ ~acq.acq_stop
    /\ acq' = [acq EXCEPT !.acq_stop = TRUE]
    /\ UNCHANGED <<extract, flush, cmd, writer, backend, lifecycleVars>>

\* serve_forever, finally: self._stop_event.set()
AcqShutdownSet ==
    /\ acq.pc = "loop" /\ ~acq.stop_event
    /\ acq' = [acq EXCEPT !.stop_event = TRUE]
    /\ UNCHANGED <<extract, flush, cmd, writer, backend, lifecycleVars>>

\* start_recording after the loop has ended: self._acq_stop.clear() and a
\* new thread that runs _acquisition_loop from its first line
AcqRestart ==
    /\ acq.pc = "exited" /\ ~acq.stop_event
    /\ acq.run < MaxRuns
    /\ acq' = [LocalsAtStart(acq) EXCEPT
                  !.pc = "loop", !.acq_stop = FALSE, !.stop_event = FALSE,
                  !.run = acq.run + 1, !.sink = acq.sink,
                  !.failures = acq.failures, !.n = acq.n, !.last = NoStep,
                  !.runStart = acq.n, !.cut = acq.cut, !.dropped = acq.dropped]
    /\ UNCHANGED <<extract, flush, cmd, writer, backend, lifecycleVars>>

\* the loop as it starts; as it is after MESSAGE_START and 126 or 127
\* characters of a message; as it is after DATA_START and the hex
\* characters 2, 2, 2; and as it is after these, a fourth 2, a DATA_END
\* whose write failed, and DATA_START, 2, 2, 2 again
DecoderStarts ==
    { NewLoop,
      [NewLoop EXCEPT !.in_message = TRUE, !.message = Repeat("x", MAX_MESSAGE - 2)],
      [NewLoop EXCEPT !.in_message = TRUE, !.message = Repeat("x", MAX_MESSAGE - 1)],
      [NewLoop EXCEPT !.in_data = TRUE, !.hex_chars = Repeat(DATA_START, 3)],
      [NewLoop EXCEPT !.in_data = TRUE, !.hex_chars = Repeat(DATA_START, 3),
                      !.sink = <<DecodeGroups(Repeat(DATA_START, 4), 0)>>,
                      !.failures = 1] }

InitDecoder ==
    /\ InitLifecycleIdle
    /\ acq \in DecoderStarts
    /\ extract = Unused /\ flush = Unused /\ cmd = Unused /\ writer = Unused
    /\ backend = Unused

NextDecoder ==
    AcqChar \/ AcqLoopExit \/ AcqStopSet \/ AcqShutdownSet \/ AcqRestart

SpecDecoder == InitDecoder /\ [][NextDecoder]_vars

\* ------------------------------------------------------------ the claims

\* the operations a caller's action has performed so far, by name
Ops(t) == [i \in 1..Len(loc[t].log) |-> loc[t].log[i].op]

IsPrefix(s, full) == Len(s) <= Len(full) /\ s = SubSeq(full, 1, Len(s))

SerialClosed == ~serLoop /\ ~serTransport

\* C1: whenever start_recording returns without having started acquisition,
\* RunState is STOPPED, the serial transport is closed and no acquisition loop
\* is running, whatever the RunState at the call.
C1_FailedStartIsStopped ==
    \A t \in Callers : StartFailed(t) =>
        state = STOPPED /\ SerialClosed /\ AliveLoops = 0

\* C2: two start_recording calls that overlap, both made while the daemon is
\* STOPPED, spawn at most one acquisition loop and open at most one serial
\* connection between them.
C2_OneStartWins ==
    \A a, b \in Callers :
        ( /\ a # b
          /\ loc[a].call = "start" /\ loc[b].call = "start"
          /\ loc[a].entry = STOPPED /\ loc[b].entry = STOPPED
          /\ a \in loc[b].over )
        => /\ ~(Logged(a, "spawn") /\ Logged(b, "spawn"))
           /\ ~(Logged(a, "open") /\ Logged(b, "open"))

\* C3: a scheduled stop_recording invoked while a client's start_recording is
\* in progress is not lost: once both calls have returned, RunState is
\* STOPPED, the serial transport is closed and no acquisition loop is running.
C3_LaterStopWins ==
    \A c \in Clients :
        ( /\ pc[c] = "ret" /\ loc[c].call = "start"
          /\ pc[Sched] = "ret" /\ loc[Sched].call = "stop"
          /\ c \in loc[Sched].over )
        => state = STOPPED /\ SerialClosed /\ AliveLoops = 0

\* C4: each schedule entry's action is invoked at most once, and an entry
\* never fires before an entry with a smaller t that has not fired yet.
C4_OnceAndAscending ==
    /\ \A i, j \in 1..Len(fired) : i # j => fired[i] # fired[j]
    /\ \A k \in 1..Len(fired) :
         \A e \in 1..Len(schedule) :
            schedule[e].t < schedule[fired[k]].t
                => \E j \in 1..(k - 1) : fired[j] = e

\* every entry has fired, some of them in a later cycle than others, and the
\* clock has wrapped past midnight since
C4_Witness ==
    /\ Len(schedule) >= 2
    /\ Len(fired) = Len(schedule)
    /\ schedule[fired[1]].t < schedule[fired[Len(fired)]].t
    /\ cycle > 0
    /\ clock < SCHEDULE_CHECK_INTERVAL

\* C5: once the clock has advanced through a full day of check cycles, every
\* schedule entry has fired.
C5_AllFiredAfterADay ==
    (cycle >= DayCycles /\ pc[Sched] = "sched_wait")
        => \A i \in 1..Len(schedule) : i \in applied

\* the entries whose t is at most the time of day now
DueNow == {i \in 1..Len(schedule) : schedule[i].t <= clock}

\* C6: the entries whose t is at most the time of day at which the scheduler
\* loop starts all fire in the first check cycle, before any wait, in list order.
C6_DueAtStartFireFirst ==
    cycle = 0 =>
        /\ \A k \in 1..Len(fired) :
              /\ fired[k] \in DueNow
              /\ \A j \in 1..(k - 1) : fired[j] < fired[k]
        /\ pc[Sched] = "sched_wait" => Len(fired) = Cardinality(DueNow)

\* the first cycle is over and has fired two entries or more, one of them
\* with t equal to the time of day at the start
C6_Witness ==
    /\ cycle = 0
    /\ pc[Sched] = "sched_wait"
    /\ Len(fired) >= 2
    /\ \E k \in 1..Len(fired) : schedule[fired[k]].t = clock

\* the steps a thread of the daemon takes without new input from a TCP
\* client, the serial peer or the operator
NextInternal ==
    \/ ServeStart \/ ServerLoopEnter \/ MainFinallySet \/ MainJoin
    \/ SchedStep
    \/ \E c \in Clients : ClientHead(c) \/ ClientRespond(c)
    \/ \E t \in Callers : CallStep(t)
    \/ AcqExit

\* no acquisition loop, scheduler loop, accept loop or client loop is running
LoopsExited ==
    /\ AliveLoops = 0
    /\ pc[Sched] \in {"unstarted", "done", "raised"}
    /\ pc[Main] # "accept"
    /\ \A c \in Clients : pc[c] \in {"unconnected", "done", "raised"}

\* C7: once the shutdown flag is set every loop exits without further input:
\* when the flag is set and no thread can take a step without new input,
\* every loop has exited.
C7_ShutdownEndsEveryLoop ==
    (stop_event /\ ~ENABLED NextInternal) => LoopsExited

\* C8: with net_port <= 0 no listener is bound, no error is raised, and the
\* daemon keeps running: the scheduler loop is not told to stop before
\* shutdown is requested.
C8_NoPortKeepsRunning ==
    net_port <= 0 =>
        /\ ~listening
        /\ serveResult \notin {"raising", "raised"}
        /\ ~interrupted => (~stop_event /\ pc[Sched] # "done")

\* C9: stop_recording from a non-STOPPED state signals the acquisition loop,
\* then joins it (when there is a thread to join), then closes the serial
\* transport, and only then sets RunState to STOPPED; it has done all four
\* when it returns.
C9_StopOrder ==
    \A t \in Callers :
        loc[t].call = "stop" =>
            /\ \/ IsPrefix(Ops(t), <<"signal", "join", "close", "state">>)
               \/ IsPrefix(Ops(t), <<"signal", "no_thread", "close", "state">>)
            /\ (pc[t] = "ret" /\ loc[t].entry # STOPPED) => Len(Ops(t)) = 4
            /\ pc[t] = "stop_set" => Len(Ops(t)) = 3

\* a stop_recording that found a thread to join has returned
C9_Witness ==
    \E t \in Callers :
        /\ loc[t].call = "stop"
        /\ pc[t] = "ret"
        /\ Ops(t) = <<"signal", "join", "close", "state">>
        /\ state = STOPPED

IsWrite(e, payload) == e.op = "write" /\ e.data = payload

\* C10: in a start_recording call the reset command is written before any
\* character is read, the identify query is written exactly once after the
\* polling window, with or without a response, and the acquisition loop is
\* spawned and RunState set only after both writes and only if the characters
\* received ended with the identify response.
C10_HandshakeOrder ==
    \A t \in Callers :
        loc[t].call = "start" =>
            LET log == loc[t].log
                n == Len(log)
                queries == {i \in 1..n : IsWrite(log[i], ID_QUERY)}
            IN /\ \A i \in 1..n :
                     log[i].op = "read" =>
                        \E j \in 1..(i - 1) : IsWrite(log[j], RESET_STRING)
               /\ Cardinality(queries) <= 1
               /\ \A i \in queries : i > 1 /\ log[i - 1].op = "read"
               /\ pc[t] \in {"start_abort", "start_clear", "start_spawn", "start_set"}
                     => Cardinality(queries) = 1
               /\ \A i \in 1..n :
                     log[i].op \in {"clear", "spawn", "state"} =>
                        /\ \E j \in 1..(i - 1) : IsWrite(log[j], RESET_STRING)
                        /\ \E j \in 1..(i - 1) : IsWrite(log[j], ID_QUERY)
                        /\ \E j \in 1..(i - 1) :
                              log[j].op = "read" /\ EndsWith(log[j].data, ID_RESPONSE)

\* a start_recording whose handshake saw the response after other characters
\* has spawned the loop and set RUNNING
C10_Witness ==
    \E t \in Callers :
        /\ loc[t].call = "start"
        /\ pc[t] = "ret"
        /\ Ops(t) = <<"open", "write", "read", "write", "clear", "spawn", "state">>
        /\ Len(loc[t].log[3].data) > Len(ID_RESPONSE)
        /\ state = RUNNING

\* the positions of the MESSAGE_END characters of t that close a span: a
\* MESSAGE_START comes before, with no MESSAGE_END in between
Closers(t) ==
    {j \in 1..Len(t) :
        /\ t[j] = MESSAGE_END
        /\ \E i \in 1..(j - 1) :
              /\ t[i] = MESSAGE_START
              /\ \A k \in (i + 1)..(j - 1) : t[k] # MESSAGE_END}

\* the most recent MESSAGE_START before position j
Opener(t, j) ==
    CHOOSE i \in 1..(j - 1) :
        /\ t[i] = MESSAGE_START
        /\ \A k \in (i + 1)..(j - 1) : t[k] # MESSAGE_START

\* C11: _extract_frames returns one frame per MESSAGE_END that closes a span,
\* in input order, and each frame is the text between that MESSAGE_END and
\* the most recent MESSAGE_START before it; nothing else yields a frame.
C11_FramesAreSpans ==
    extract.returned =>
        LET t == extract.text
            ends == Closers(t)
        IN /\ Len(extract.result) = Cardinality(ends)
           /\ \A j \in ends :
                 extract.result[Cardinality({k \in ends : k <= j})]
                    = SubSeq(t, Opener(t, j) + 1, j - 1)

\* a span restarted by a second MESSAGE_START has been closed: the frame
\* holds only what came after the restart
C11_Witness ==
    /\ extract.returned
    /\ extract.text = <<MESSAGE_START, "A", MESSAGE_START, "B", MESSAGE_END>>
    /\ extract.result = << <<"B">> >>

\* the complete 4-character groups of a hex buffer
Groups(h) == [k \in 1..(Len(h) \div 4) |-> SubSeq(h, 4 * k - 3, 4 * k)]

\* hexadecimal text: hex digits and nothing else
IsHex(g) == \A i \in 1..Len(g) : IsHexDigit(g[i])

\* C12: decode-and-flush uses the complete 4-character groups only; a group
\* contributes a sample exactly when it is hexadecimal and is not 2323, the
\* groups after a skipped one included; when no group contributes the sink's
\* write is not called, else it is called once with one sample per
\* contributing group.
C12_DecodeSkipsBadGroups ==
    flush.pc = "returned" =>
        LET gs == Groups(flush.text)
            good == {k \in 1..Len(gs) : IsHex(gs[k]) /\ gs[k] # <<"2", "3", "2", "3">>}
        IN IF good = {}
           THEN flush.sink = <<>>
           ELSE /\ Len(flush.sink) = 1
                /\ Len(flush.sink[1]) = Cardinality(good)

\* the command table of the control protocol: the response to a command word
CommandTable ==
    [w \in {CmdStart, CmdStop, CmdOverview, CmdOverviewStop, CmdOverviewOff, CmdGet, <<>>} |->
        IF w = <<>> THEN "OK"
        ELSE IF w = CmdStart THEN "OK starting new FITS file"
        ELSE IF w = CmdStop THEN "OK stopping"
        ELSE IF w = CmdOverview THEN "OK starting spectral overview"
        ELSE IF w = CmdGet THEN "ERROR no data (yet)"
        ELSE "OK stopping continuous spectral overview"]

\* C13: the response of process_client_command is the command table's entry
\* for the trimmed, lower-cased line, and every response but the close
\* signal ends with a blank line.
C13_CommandTable ==
    cmd.pc = "returned" =>
        LET w == Lower(Strip(cmd.line))
            r == cmd.response
        IN /\ (w = CmdQuit) <=> r.close
           /\ ~r.close => r.newlines = 2
           /\ w \in DOMAIN CommandTable => r.text = CommandTable[w] /\ r.arg = <<>>
           /\ w \in {CmdOverviewContinuous, CmdOverviewCont} =>
                 /\ r.arg = <<>>
                 /\ r.text = IF cmd.ret
                             THEN "OK starting continuous spectral overview in HDF5 (window=filetime)"
                             ELSE "ERROR HDF5 backend unavailable (install python3-h5py)"
           /\ w \notin DOMAIN CommandTable
                    \cup {CmdQuit, CmdOverviewContinuous, CmdOverviewCont} =>
                 r.text = "ERROR unrecognized command (%s)" /\ r.arg = w

\* an upper-case START that came padded with blanks and a line end has been
\* answered as start
C13_Witness ==
    /\ cmd.pc = "returned"
    /\ cmd.line = <<" ">> \o Upper(CmdStart) \o <<"\r", "\n">>
    /\ cmd.response.text = "OK starting new FITS file"

\* C14: process_client_command runs at most one callback, once: the one of
\* the command, also when on_overview_continuous returns false, and none for
\* an empty line, quit, get and unrecognized text.
C14_OneCallback ==
    cmd.pc = "returned" =>
        LET w == Lower(Strip(cmd.line))
        IN cmd.calls =
             IF w = CmdStart THEN <<"on_start">>
             ELSE IF w = CmdStop THEN <<"on_stop">>
             ELSE IF w = CmdOverview THEN <<"on_overview_once">>
             ELSE IF w \in {CmdOverviewContinuous, CmdOverviewCont}
                  THEN <<"on_overview_continuous">>
             ELSE IF w \in {CmdOverviewStop, CmdOverviewOff}
                  THEN <<"on_overview_off">>
             ELSE <<>>

\* overview-cont has been answered with the ERROR response after
\* on_overview_continuous ran once and returned false
C14_Witness ==
    /\ cmd.pc = "returned"
    /\ Lower(Strip(cmd.line)) = CmdOverviewCont
    /\ ~cmd.ret
    /\ cmd.calls = <<"on_overview_continuous">>
    /\ cmd.response.text = "ERROR HDF5 backend unavailable (install python3-h5py)"

\* client c has a command answered with an ERROR response: unrecognized
\* text, get, or an overview-continuous whose callback may have returned false
ErrorAnswered(c) ==
    pc[c] = "ret" /\ loc[c].call \in {"get", "unknown", "overview_continuous"}

\* C15: a command answered with an ERROR response leaves the connection
\* open, the handler goes on to read the next line, and the handler of a
\* connection ends only on quit, peer disconnect or shutdown, never on an
\* exception.
C15_ErrorKeepsConnection ==
    \A c \in Clients :
        /\ ErrorAnswered(c) => ENABLED ClientRespond(c)
        /\ pc[c] # "raised"

\* the last call was a regular write that reached the storage backend
RegularWrite == writer.last.op = "data" /\ writer.last.reached

\* C16: on a regular write the output path changes if and only if it is the
\* first write or the write's timestamp is at least max(1, filetime) seconds
\* after the file's start; when it changes the start becomes the write's
\* timestamp and the path differs from the one before, otherwise path and
\* start stay as they were.
C16_RotationIffDue ==
    RegularWrite =>
        LET b == writer.before
            ts == writer.last.ts_us
            first == b.fits_seq = 0
            due == first \/ ts - b.fits_current_start
                               >= Max2(1, writer.filetime) * US_PER_SECOND
        IN IF due
           THEN /\ writer.fits_current_path # b.fits_current_path
                /\ writer.fits_current_start = ts
           ELSE /\ writer.fits_current_path = b.fits_current_path
                /\ writer.fits_current_start = b.fits_current_start

\* with filetime 0 the third write, one second after the file's start, has
\* rotated the file that the second write had kept
C16_Witness ==
    /\ RegularWrite
    /\ writer.filetime = 0
    /\ writer.before.fits_seq = 2
    /\ writer.before.fits_current_start = US_PER_SECOND
    /\ writer.last.ts_us = 2 * US_PER_SECOND
    /\ writer.fits_current_path # writer.before.fits_current_path

\* C17: save_overview_hdf5 with no points changes nothing: no path, no file,
\* and the overview path, start and sequence counter as before.
C17_EmptyOverviewNoOp ==
    (writer.last.op = "overview" /\ writer.last.n = 0) =>
        RotationState(writer) = writer.before

\* an empty overview came after an overview with points and changed nothing,
\* and an empty overview on a fresh engine allocated no path
C17_Witness ==
    /\ writer.last.op = "overview" /\ writer.last.n = 0
    /\ writer.ovs_hdf5_seq = 1
    /\ writer.ovs_hdf5_current_path # NoPath
    /\ writer.writes = 2

\* C18: for a buffer of L >= 1 bytes and channel count C (the table's length
\* when there is a table, else max(1, configured count)) the matrix is 1 x L
\* when L < C, else floor(L/C) x C filled row by row from the first
\* floor(L/C)*C bytes.
C18_MatrixShape ==
    Len(writer.built.raw) >= 1 =>
        LET raw == writer.built.raw
            m == writer.built.matrix
            L == Len(raw)
            C == IF Len(writer.channel_frequencies) > 0
                 THEN Len(writer.channel_frequencies)
                 ELSE IF writer.nchannels >= 1 THEN writer.nchannels ELSE 1
        IN IF L < C
           THEN m = << raw >>
           ELSE /\ Len(m) = L \div C
                /\ \A r \in 1..Len(m) :
                      /\ Len(m[r]) = C
                      /\ \A c \in 1..C : m[r][c] = raw[(r - 1) * C + c]

\* 7 bytes with a table of 2 channels, the configured count being 3: three
\* rows of two, the last byte dropped
C18_Witness ==
    /\ Len(writer.built.raw) = 7
    /\ Len(writer.channel_frequencies) = 2 /\ writer.nchannels = 3
    /\ writer.built.matrix = << <<1, 2>>, <<3, 4>>, <<5, 6>> >>

\* the timestamp axis has one entry per row, starts at the buffer timestamp
\* and has the constant step d
AxisWithStep(d) ==
    LET ts == writer.built.timestamps_us
    IN /\ Len(ts) = Len(writer.built.matrix)
       /\ ts[1] = writer.built.ts_us
       /\ \A k \in 1..(Len(ts) - 1) : ts[k + 1] - ts[k] = d

\* C19 as stated: for every sample rate the axis has the step
\* 1_000_000 div rate and is strictly increasing.
C19_AxisStrictlyIncreasing ==
    (writer.built.matrix # <<>> /\ writer.samplerate >= 1) =>
        /\ AxisWithStep(US_PER_SECOND \div writer.samplerate)
        /\ \A k \in 1..(Len(writer.built.timestamps_us) - 1) :
              writer.built.timestamps_us[k + 1] > writer.built.timestamps_us[k]

\* C19: the axis has one entry per row and starts at the buffer timestamp;
\* its step is 1_000_000 div rate for a rate of 1 to 1_000_000, which makes
\* it strictly increasing; a rate below 1 counts as 1, and above 1_000_000
\* the step is 0.
C19_AxisStep ==
    writer.built.matrix # <<>> =>
        IF writer.samplerate < 1 THEN AxisWithStep(US_PER_SECOND)
        ELSE IF writer.samplerate > US_PER_SECOND THEN AxisWithStep(0)
        ELSE /\ AxisWithStep(US_PER_SECOND \div writer.samplerate)
             /\ US_PER_SECOND \div writer.samplerate > 0

\* three sweeps at 3 samples per second: steps of 333333 microseconds
C19_Witness ==
    /\ writer.samplerate = 3
    /\ writer.built.ts_us = US_PER_SECOND
    /\ writer.built.timestamps_us = <<1000000, 1333333, 1666666>>

\* C20: after a start that failed, at whichever step, start has returned
\* false and the loop, thread, transport and protocol handles are all
\* empty, so that a read_char then returns none and a write does nothing.
C20_FailedStartLeavesNothing ==
    (backend.pc = "idle" /\ backend.failedStart) =>
        /\ ~backend.loop /\ ~backend.thread
        /\ ~backend.transport /\ ~backend.protocol
        /\ backend.last.op = "start" => backend.last.result = "false"
        /\ backend.last.op = "read_char" => backend.last.result = "none"
        /\ backend.last.op = "write" => backend.last.result = "ignored"

\* a start failed when opening the port, with the loop and the thread
\* already created, and the read_char after it returned none
C20_Witness ==
    /\ backend.pc = "idle" /\ backend.failedStart
    /\ backend.failedAt = "open"
    /\ backend.last = [op |-> "read_char", result |-> "none"]

\* the first n characters of a block
RECURSIVE TakeChars(_, _)
TakeChars(data, n) ==
    IF n <= 0 \/ data = <<>> THEN <<>>
    ELSE IF Head(data).n >= n THEN <<Run(Head(data).ch, n)>>
         ELSE <<Head(data)>> \o TakeChars(Tail(data), n - Head(data).n)

\* the characters of q followed by those of more
RECURSIVE QueueThen(_, _)
QueueThen(q, more) ==
    IF more = <<>> THEN q
    ELSE QueueThen(PutRun(q, Head(more).ch, Head(more).n), Tail(more))

\* C21: the receive queue never holds more than 65536 characters; after a
\* data_received the queue is what it held before, in the same order,
\* followed by the leading bytes of the block that fitted, the others are
\* dropped, and the callback has returned (it can always run on an open
\* connection, whatever the queue holds).
C21_QueueBounded ==
    /\ qsize(backend.read_queue) <= QUEUE_MAXSIZE
    /\ backend.last.op = "data_received" =>
         LET room == QUEUE_MAXSIZE - qsize(backend.before)
             kept == IF qsize(backend.data) <= room
                     THEN qsize(backend.data) ELSE room
         IN /\ backend.read_queue =
                  QueueThen(backend.before, TakeChars(backend.data, kept))
            /\ backend.last.result = "returned"
    /\ (backend.transport /\ backend.protocol /\ backend.rx < MaxRx) =>
         ENABLED BackendDataReceived

\* a block of two bytes arrived with room for one: the first was queued
\* behind the 65535 characters already there and the second was dropped
C21_Witness ==
    /\ backend.last.op = "data_received"
    /\ backend.before = <<Run("2", QUEUE_MAXSIZE - 1)>>
    /\ backend.data = <<Run("2", 1), Run("$", 1)>>
    /\ backend.read_queue = <<Run("2", QUEUE_MAXSIZE)>>

\* C22: on a link that was never started, whose start failed or that was
\* stopped, read_char returns none and write dispatches nothing; on a
\* started link read_char returns the oldest queued character and removes
\* it, or none when the queue stayed empty for the timeout.
C22_NotStartedReadsNone ==
    /\ (backend.last.op = "read_char"
            /\ backend.link \in {"new", "failed", "stopped"}) =>
         /\ backend.last.result = "none"
         /\ backend.read_queue = backend.before
    /\ (backend.last.op = "write"
            /\ backend.link \in {"new", "failed", "stopped"}) =>
         backend.last.result = "ignored"
    /\ (backend.last.op = "read_char" /\ backend.link = "started") =>
         IF backend.before = <<>>
         THEN backend.last.result = "none" /\ backend.read_queue = <<>>
         ELSE /\ backend.last.result = Head(backend.before).ch
              /\ QueueThen(<<Run(backend.last.result, 1)>>, backend.read_queue)
                    = backend.before

\* read_char on a stopped link whose queue still holds a character
C22_Witness ==
    /\ backend.link = "stopped"
    /\ backend.last = [op |-> "read_char", result |-> "none"]
    /\ backend.read_queue # <<>>

\* the four handles and the queue
BackendFields(b) == <<b.loop, b.thread, b.transport, b.protocol, b.read_queue>>

\* C23: stop, called in any state and with any of its teardown steps
\* failing, returns with the loop, thread, transport and protocol handles
\* empty, and a second stop leaves that state as it is.
C23_StopIdempotent ==
    /\ \A fails \in SUBSET StopSteps, running \in BOOLEAN :
         LET once == stop(backend, fails, running)
         IN /\ ~once.loop /\ ~once.thread /\ ~once.transport /\ ~once.protocol
            /\ once.read_queue = backend.read_queue
            /\ \A again \in SUBSET StopSteps, still \in BOOLEAN :
                 BackendFields(stop(once, again, still)) = BackendFields(once)
    /\ (backend.last.op = "stop" /\ backend.link = "stopped") =>
         ~backend.loop /\ ~backend.thread /\ ~backend.transport /\ ~backend.protocol

\* a stop of a started link in which closing the transport and joining the
\* thread both raised
C23_Witness ==
    /\ backend.last.op = "stop" /\ backend.link = "stopped"
    /\ backend.raised = {"transport_close", "thread_join"}
    /\ backend.read_queue # <<>>

\* what a write leaves in storage: the path, the file start, the sequence
\* counter, the files written and the backend calls made
Persisted(w) ==
    [fits_current_path |-> w.fits_current_path,
     fits_current_start |-> w.fits_current_start,
     fits_seq |-> w.fits_seq, files |-> w.files,
     astropy_fits |-> w.astropy_fits, h5py |-> w.h5py,
     calls |-> w.last.calls]

\* C24: with streaming enabled a write whose publication fails persists
\* exactly what the same write does on the same engine with streaming
\* disabled: the same backend calls, path, file start and sequence counter;
\* and after a failed publication the storage write was attempted.
C24_PublishFailureKeepsPersistence ==
    /\ writer.zmq_enabled =>
         \A n \in 0..1, ts_us \in TsValues, initOk \in BOOLEAN :
             Persisted(write_data_buffer(writer, n, ts_us, initOk, FALSE))
               = Persisted(write_data_buffer([writer EXCEPT !.zmq_enabled = FALSE],
                                             n, ts_us, initOk, TRUE))
    /\ (writer.last.op = "data" /\ writer.last.published = "failed"
            /\ writer.last.init # "failed") =>
         /\ Len(writer.last.calls) > 0
         /\ writer.last.calls[Len(writer.last.calls)]
               \in {"_fits_write_buffer", "_hdf5_write_buffer"}
         /\ writer.fits_seq = writer.before.fits_seq + 1

\* the publication of the second buffer failed and the buffer was stored
\* in the file the first write had opened
C24_Witness ==
    /\ writer.last.op = "data" /\ writer.last.published = "failed"
    /\ writer.zmq_enabled
    /\ writer.fits_seq = 2
    /\ writer.fits_current_path = writer.before.fits_current_path
    /\ writer.fits_current_path # NoPath

\* C25: a write whose lazy initialisation failed returns with no path
\* allocated, the file start and the sequence counter as before and no
\* storage write made; an initialisation that succeeded is never run again
\* by a later write.
C25_FailedInitAbandonsWrite ==
    /\ (writer.last.op = "data" /\ writer.last.init = "failed") =>
         /\ RotationState(writer) = writer.before
         /\ writer.last.calls \in {<<"fits_init">>, <<"hdf5_init">>}
         /\ ~writer.last.reached
    /\ writer.inits <= 1
    /\ (writer.last.op = "data" /\ writer.inits = 1
            /\ writer.last.init # "loaded") =>
         /\ writer.last.init = "skipped"
         /\ writer.last.calls
               \in {<<"_fits_write_buffer">>, <<"_hdf5_write_buffer">>}

\* the initialisation failed twice in a row, each time for a buffer with
\* data, and the engine still has no path
C25_Witness ==
    /\ writer.last.op = "data" /\ writer.last.init = "failed"
    /\ writer.last.n = 1 /\ writer.writes = 2
    /\ writer.fits_current_path = NoPath /\ writer.fits_seq = 0

\* the storage writers a write called
WriterCalls(calls) ==
    SelectSeq(calls, LAMBDA c : c \in {"_fits_write_buffer", "_hdf5_write_buffer"})

\* C26: a write whose initialisation did not fail calls exactly one storage
\* writer: the HDF5 one when the configured output format, trimmed and
\* lower-cased, is hdf5 or h5, and the FITS one for every other value, the
\* empty one included; a write whose initialisation failed calls none.
C26_RoutedToOneBackend ==
    writer.last.op = "data" =>
        LET v == Lower(Strip(writer.output_format))
        IN IF writer.last.init = "failed"
           THEN WriterCalls(writer.last.calls) = <<>>
           ELSE WriterCalls(writer.last.calls) =
                    IF v \in {FormatHdf5, FormatH5}
                    THEN <<"_hdf5_write_buffer">> ELSE <<"_fits_write_buffer">>

\* the output format " H5" followed by a newline went to the HDF5 writer
C26_Witness ==
    /\ writer.last.op = "data"
    /\ writer.output_format = <<" ", "H", "5", "\n">>
    /\ writer.last.calls = <<"hdf5_init", "_hdf5_write_buffer">>
    /\ writer.h5py /\ ~writer.astropy_fits

\* the scheduler is inside the action of the entry it fired last
SchedInAction == pc[Sched] \notin {"sched_head", "sched_for", "sched_wait", "done"}

\* C27: the entry being fired has invoked the action of its code, start for
\* 3, stop for 0, the one-shot overview for 8 and no action for any other
\* code; an entry of another code performs no operation and leaves the
\* RunState as it was; and every entry that fired and whose action has
\* returned is marked applied, whatever its code.
C27_FiredEntryInvokesItsAction ==
    /\ SchedInAction =>
         LET code == schedule[idx].action
         IN /\ fired # <<>> /\ fired[Len(fired)] = idx
            /\ code = 3 => loc[Sched].call = "start"
            /\ code = 0 => loc[Sched].call = "stop"
            /\ code = 8 => loc[Sched].call = "overview"
            /\ code \notin {3, 0, 8} =>
                 /\ loc[Sched].call = None
                 /\ pc[Sched] = "ret"
                 /\ loc[Sched].log = <<>>
                 /\ state = loc[Sched].entry
                 /\ ENABLED SchedApplied
    /\ \A k \in 1..Len(fired) :
         fired[k] \in applied \/ (SchedInAction /\ k = Len(fired))
    /\ \A i \in applied : \E k \in 1..Len(fired) : fired[k] = i

\* after the overview entry an entry of code 5 has fired and is marked
\* applied, and the start entry after it is being executed, entered in the
\* OVERVIEW state the entry of code 5 left alone
C27_Witness ==
    /\ \E i \in applied : schedule[i].action = 5
    /\ Len(fired) = 3 /\ schedule[fired[3]].action = 3
    /\ SchedInAction /\ loc[Sched].call = "start"
    /\ loc[Sched].entry = OVERVIEW

\* the loop has just taken a character while a data span was open
InDataTurn == acq.n > 0 /\ acq.last.in_data

\* C28: a character other than DATA_END taken inside a data span is
\* appended to the hex buffer when it is not whitespace, MESSAGE_START,
\* MESSAGE_END, EEPROM_READY and DATA_START included, and dropped when it
\* is; either way the span flags and the message buffer stay as they were.
C28_DataSpanAppendsVerbatim ==
    (InDataTurn /\ acq.last.ch # DATA_END) =>
        /\ acq.hex_chars = IF acq.last.ch \in Whitespace THEN acq.last.hex_chars
                           ELSE Append(acq.last.hex_chars, acq.last.ch)
        /\ acq.in_data = acq.last.in_data
        /\ acq.in_message = acq.last.in_message
        /\ acq.message = acq.last.message

\* C29: after each character the decoder is in one of IDLE, IN_MESSAGE and
\* IN_DATA, never with a message span and a data span open together, and a
\* message span is opened only when no span was open.
C29_OneSpanAtATime ==
    /\ ~(acq.in_message /\ acq.in_data)
    /\ (acq.n > 0 /\ acq.in_message /\ ~acq.last.in_message) =>
         ~acq.last.in_data

NoiseTurn ==
    /\ acq.n > 0 /\ acq.last.ch # ""
    /\ ~acq.last.in_message /\ ~acq.last.in_data
    /\ acq.last.ch \notin {MESSAGE_START, DATA_START}

HexValue16(g) ==
    4096 * DigitValue(g[1]) + 256 * DigitValue(g[2])
        + 16 * DigitValue(g[3]) + DigitValue(g[4])

\* the samples the groups gs call for, in group order: one per group of four
\* hex digits whose value is not 0x2323, the value shifted right by two bits
\* and taken modulo 256
RECURSIVE SamplesOf(_)
SamplesOf(gs) ==
    IF gs = <<>> THEN <<>>
    ELSE (IF IsHex(Head(gs)) /\ HexValue16(Head(gs)) # 2 * 4096 + 3 * 256 + 2 * 16 + 3
          THEN <<(HexValue16(Head(gs)) \div 4) % 256>> ELSE <<>>)
         \o SamplesOf(Tail(gs))

\* C32: the samples decode-and-flush emits are, in group order, (v >> 2) mod
\* 256 for the 16-bit value v of every valid group whose value is not
\* 0x2323, one sample per such group and none besides, each in 0..255.
C32_SamplesAreReducedGroups ==
    flush.pc = "returned" =>
        LET expected == SamplesOf(Groups(flush.text))
        IN /\ flush.sink = IF expected = <<>> THEN <<>> ELSE <<expected>>
           /\ \A b \in 1..Len(flush.sink) : \A k \in 1..Len(flush.sink[b]) :
                 flush.sink[b][k] \in 0..255

\* the loop has just handed a buffer to write_data_buffer
WriteTurn == acq.n > 0 /\ acq.last.event = "write"

C34_SequenceCounterMonotonic ==
    /\ writer.last.op # "none" =>
         writer.fits_seq = writer.before.fits_seq + (IF RegularWrite THEN 1 ELSE 0)
    /\ Len(writer.names) = writer.fits_seq
    /\ \A i, j \in 1..Len(writer.names) :
         i # j => writer.names[i] # writer.names[j]
    /\ RegularWrite => writer.names[Len(writer.names)] = writer.before.fits_seq

\* the third write rotated the file and used the number 2, after 0 and 1 in
\* the file before
C34_Witness ==
    /\ RegularWrite
    /\ writer.before.fits_current_path # NoPath
    /\ writer.fits_current_path # writer.before.fits_current_path
    /\ writer.names = <<0, 1, 2>> /\ writer.fits_seq = 3

\* the regular and the overview part of the rotation state
RegularState(r) == <<r.fits_current_path, r.fits_current_start, r.fits_seq>>
OverviewState(r) ==
    <<r.ovs_hdf5_current_path, r.ovs_hdf5_current_start, r.ovs_hdf5_seq>>

\* C35: a regular write leaves the overview path, start and sequence
\* counter as they were, and an overview write leaves the regular path,
\* start and sequence counter as they were, in any interleaving of the two.
C35_RotationStatesIndependent ==
    /\ writer.last.op = "data" =>
         OverviewState(RotationState(writer)) = OverviewState(writer.before)
    /\ writer.last.op = "overview" =>
         RegularState(RotationState(writer)) = RegularState(writer.before)

\* an overview with points came between two regular writes and a regular
\* write came after it: both files exist, each with its own start and
\* counter
C35_Witness ==
    /\ writer.last.op = "data" /\ RegularWrite
    /\ writer.fits_seq = 2 /\ writer.ovs_hdf5_seq = 1
    /\ writer.ovs_hdf5_current_path # NoPath
    /\ writer.fits_current_start # writer.ovs_hdf5_current_start
    /\ writer.writes = 3

\* C39: when the start of a schedule entry has returned without starting
\* acquisition, RunState is not RUNNING and the scheduler's next step marks
\* the entry applied and leaves the RunState alone; an entry once marked
\* stays marked, only an entry that is not marked fires, so no entry fires
\* twice in any later cycle; and RunState becomes RUNNING only as the last
\* statement of a start request that opened the port, passed the handshake
\* and spawned the loop.
C39_FailedStartNotRetried ==
    /\ [](/\ StartFailed(Sched) => state # RUNNING /\ idx \notin applied
          /\ \A i, j \in 1..Len(fired) : i # j => fired[i] # fired[j])
    /\ [][/\ (StartFailed(Sched) /\ pc'[Sched] # pc[Sched]) =>
                /\ applied' = applied \cup {idx}
                /\ state' = state
          /\ applied \subseteq applied'
          /\ fired' # fired => idx \notin applied /\ fired' = Append(fired, idx)
          /\ (state # RUNNING /\ state' = RUNNING) =>
                /\ pc[Sched] = "start_set" /\ loc[Sched].call = "start"
                /\ Logged(Sched, "open") /\ Logged(Sched, "spawn")]_vars

\* the start at 04:00 fired in the first cycle and failed; it is marked
\* applied, and two cycles later, when it is due again by the clock and the
\* stop of 19:30 is not yet, the loop over the entries has passed it: the
\* daemon is stopped with no loop and the port closed
C39_Witness ==
    /\ Len(schedule) = 2 /\ schedule[1].action = ACTION_START
    /\ applied = {1} /\ fired = <<1>>
    /\ state = STOPPED /\ acq_thread = None /\ SerialClosed
    /\ pc[Sched] = "sched_for" /\ idx = 2
    /\ t_sec >= schedule[1].t /\ t_sec < schedule[2].t
    /\ cycle >= 2

\* C40: a loop that ends while a data span is open hands nothing to the
\* sink as it ends; the run that follows begins outside any message and
\* data span with an empty message and an empty hex buffer and the sink as
\* it was; and in that run the hex buffer holds no more characters than the
\* run has taken since its own DATA_START, so that none of the characters
\* dropped with the old span reaches the sink.
C40_OpenSpanDroppedOnStop ==
    /\ [](acq.run > 1 /\ acq.in_data =>
             Len(acq.hex_chars) + 1 <= acq.n - acq.runStart)
    /\ [][/\ (acq.pc = "loop" /\ acq'.pc = "exited") =>
                /\ acq'.sink = acq.sink
                /\ acq'.cut = acq.in_data
          /\ (acq.pc = "exited" /\ acq'.pc = "loop") =>
                /\ ~acq'.in_data /\ ~acq'.in_message
                /\ acq'.hex_chars = <<>> /\ acq'.message = <<>>
                /\ acq'.sink = acq.sink
                /\ ~acq'.acq_stop]_vars

\* the first run was stopped inside a data span holding the hex characters
\* 2, 2, 2; the second run has taken DATA_START, one hex character and
\* DATA_END, which flushed a buffer of that one character: too short for a
\* sample, so the sink is still empty
C40_Witness ==
    /\ acq.run = 2 /\ acq.cut /\ acq.dropped = Repeat(DATA_START, 3)
    /\ acq.n - acq.runStart = 3
    /\ acq.last.event = "flush" /\ acq.last.hex_chars = <<DATA_START>>
    /\ acq.sink = <<>> /\ ~acq.in_data

\* no action is being executed: every caller is between two commands
BetweenActions == \A t \in Callers : pc[t] \notin {"ret", "raised"} \cup StartPcs \cup StopPcs

\* C36: between two actions, whenever RunState is RUNNING an acquisition
\* loop is alive and the serial transport is open.
C36_RunningMeansAcquiring ==
    (BetweenActions /\ state = RUNNING) => (AliveLoops >= 1 /\ serTransport)

\* C37: between two actions at most one acquisition loop is alive.
C37_AtMostOneLoop ==
    BetweenActions => AliveLoops <= 1

\* stop_recording has returned to caller t
StopReturned(t) == pc[t] = "ret" /\ loc[t].call = "stop"

\* C38: when stop_recording has returned, RunState is STOPPED, the serial
\* backend holds no loop and no transport, and every acquisition loop that
\* is still alive finds its while condition false at its next check, which
\* ends it whatever the serial link delivers.
C38_StopLeavesStopped ==
    \A t \in Callers : StopReturned(t) =>
        /\ state = STOPPED
        /\ SerialClosed
        /\ AliveLoops > 0 => (acq_stop /\ ENABLED AcqExit)

\* stop_recording was called in the OVERVIEW state with two loops alive and
\* has returned after a join that timed out: both loops are still alive and
\* are about to end
C38_Witness ==
    \E t \in Clients :
        /\ StopReturned(t) /\ loc[t].entry = OVERVIEW
        /\ Logged(t, "join") /\ Logged(t, "close")
        /\ AliveLoops = 2 /\ acq_thread = None

====
